---- MODULE Spec2Model ----
(***************************************************************************)
(* Model of the scfw import and dispatch machinery: the IMPORT_* chain of  *)
(* dispatch_table_impl<N>, its static assertions, the chained init and     *)
(* destroy, the generated _entry shim, and the user-mode / kernel-mode     *)
(* platform backends with the PE export parser and the loader-list walk.   *)
(* Strings are tuples of character codes without the terminator; a         *)
(* pointer is an integer address and 0 is the null pointer; a 32-bit hash  *)
(* is a pair <<high 16 bits, low 16 bits>>.                                *)
(***************************************************************************)
EXTENDS Integers, Sequences, FiniteSets, TLC

VARIABLES
    mode,       \* SCFW_MODE: "user_mode" or "kernel_mode"
    features,   \* the SCFW_ENABLE_* switches that are defined
    missing,    \* the export the host's bootstrap image does not have
    argument1,  \* first argument handed to _entry by the prologue
    argument2,  \* second argument handed to _entry by the prologue
    decls,      \* the IMPORT_MODULE / IMPORT_SYMBOL declarations so far
    diag,       \* diagnostics of the translation
    pc,         \* where the payload is in its life
    hdr,        \* header slots of __dispatch_table
    kernel_base,\* mode_traits<kernel_mode>::kernel_base
    slots,      \* module_ / slot_Name_ of every entry, in declaration order
    err,        \* value returned by dt->init, -1 before it returned
    ldr,        \* the host's InLoadOrderModuleList
    refs,       \* the host's load count of every module
    shim,       \* calls made by _entry itself
    calls,      \* platform operations called by init and destroy
    \* one _TX(s) site, followed on its own
    literal,    \* the literal s, its character type and its source line
    xstr,       \* the static xor_string _xstr: key, len, data
    xpc,        \* where decode_xor is: "static", "loop" or "returned"
    xi,         \* the loop counter i of decode_xor
    xlog,       \* what every decode_xor call returned
    \* fnv1a_hash applied to a string and to its case variants
    hstr,       \* the string and its character type
    hout,       \* the hashes computed so far, by variant
    \* _() applied to compile-time addresses of a loaded image
    target,     \* "x86" (_M_IX86) or "x64"
    load_base,  \* runtime address of the image's first byte
    pic_log,    \* every _(p) call: p, what _pc() returned, the result
    \* lookup_symbol applied to one image's export directory
    image,      \* the image: Names, Ordinals, Functions
    lookups,    \* every lookup made on it: comparator and result
    \* lookup_symbol of the build that follows forwarded exports
    fhost,      \* the loader list, the forwarder strings, the first request
    chase,      \* the lookup_symbol call in progress (depth: how many calls
                \* deep it is, modulo 2), or what it returned
    \* mode_traits<user_mode>::find_module on a loader list
    floader,    \* base names of InLoadOrderModuleList, in load order
    finds,      \* every find_module made on it: request and result
    \* kernelmode::find_module_impl, statement by statement
    ksys,       \* what the kernel answers: query statuses, pool, module array
    kq,         \* the locals of the helper and the pool calls it made
    \* the case folds of crt0.h and fnv1a.h on two strings
    fold_in,    \* the strings a and b
    fold_out,   \* what each comparator and the hasher's fold said
    \* the user body between init and destroy
    body        \* which imports are value imports, one GLOBAL, one _TX record,
                \* and the operations the body has run

payload_vars == <<mode, features, missing, argument1, argument2, decls, diag, pc,
                  hdr, kernel_base, slots, err, ldr, refs, shim, calls>>
xor_vars == <<literal, xstr, xpc, xi, xlog>>
hash_vars == <<hstr, hout>>
pic_vars == <<target, load_base, pic_log>>
export_vars == <<image, lookups>>
fwd_vars == <<fhost, chase>>
find_vars == <<floader, finds>>
kq_vars == <<ksys, kq>>
fold_vars == <<fold_in, fold_out>>
body_vars == <<body>>
ext_vars == <<fwd_vars, find_vars, kq_vars, fold_vars, body_vars>>
lib_vars == <<xor_vars, hash_vars, pic_vars, export_vars, ext_vars>>
vars == <<payload_vars, lib_vars>>

----------------------------------------------------------------------------
(* Bounds of the model.                                                    *)

MaxImports == 3

----------------------------------------------------------------------------
(* Per-entry flags.                                                        *)

SCFW_FLAG_DYNAMIC_RESOLVE == 1
SCFW_FLAG_DYNAMIC_LOAD == 2
SCFW_FLAG_DYNAMIC_UNLOAD == 4
SCFW_FLAG_STRING_MODULE == 8
SCFW_FLAG_STRING_SYMBOL == 16

\* (flags & bit) != 0, for a single-bit mask
HasFlag(flags, bit) == (flags \div bit) % 2 = 1

----------------------------------------------------------------------------
(* String literals of the sources and names of the host's images.          *)

S_kernel32_dll == <<107, 101, 114, 110, 101, 108, 51, 50, 46, 100, 108, 108>>
S_ntdll_dll == <<110, 116, 100, 108, 108, 46, 100, 108, 108>>
S_ntoskrnl_exe == <<110, 116, 111, 115, 107, 114, 110, 108, 46, 101, 120, 101>>
S_user32_dll == <<117, 115, 101, 114, 51, 50, 46, 100, 108, 108>>
S_ksecdd_sys == <<107, 115, 101, 99, 100, 100, 46, 115, 121, 115>>
S_NTOSKRNL_EXE == <<78, 84, 79, 83, 75, 82, 78, 76, 46, 69, 88, 69>>
S_KSECDD_SYS == <<75, 83, 69, 67, 68, 68, 46, 83, 89, 83>>
S_nope_dll == <<110, 111, 112, 101, 46, 100, 108, 108>>
S_VirtualFree == <<86, 105, 114, 116, 117, 97, 108, 70, 114, 101, 101>>
S_GetProcAddress == <<71, 101, 116, 80, 114, 111, 99, 65, 100, 100, 114, 101, 115, 115>>
S_LoadLibraryA == <<76, 111, 97, 100, 76, 105, 98, 114, 97, 114, 121, 65>>
S_FreeLibrary == <<70, 114, 101, 101, 76, 105, 98, 114, 97, 114, 121>>
S_ExFreePool == <<69, 120, 70, 114, 101, 101, 80, 111, 111, 108>>
S_ExAllocatePool == <<69, 120, 65, 108, 108, 111, 99, 97, 116, 101, 80, 111, 111, 108>>
S_ZwQuerySystemInformation == <<90, 119, 81, 117, 101, 114, 121, 83, 121, 115, 116, 101, 109, 73, 110, 102, 111, 114, 109, 97, 116, 105, 111, 110>>
S_Sleep == <<83, 108, 101, 101, 112>>
S_SecLookupAccountSid == <<83, 101, 99, 76, 111, 111, 107, 117, 112, 65, 99, 99, 111, 117, 110, 116, 83, 105, 100>>
S_MessageBoxA == <<77, 101, 115, 115, 97, 103, 101, 66, 111, 120, 65>>
\* names as the host spells them
W_KERNEL32_DLL == <<75, 69, 82, 78, 69, 76, 51, 50, 46, 68, 76, 76>>
W_USER32_dll == <<85, 83, 69, 82, 51, 50, 46, 100, 108, 108>>
W_payload_exe == <<112, 97, 121, 108, 111, 97, 100, 46, 101, 120, 101>>
S_sleep == <<115, 108, 101, 101, 112>>
S_DefWindowProcA == <<68, 101, 102, 87, 105, 110, 100, 111, 119, 80, 114, 111, 99, 65>>
S_NtdllDefWindowProc_A == <<78, 116, 100, 108, 108, 68, 101, 102, 87, 105, 110, 100, 111, 119,
                            80, 114, 111, 99, 95, 65>>
S_NTDLL == <<78, 84, 68, 76, 76>>
S_USER32 == <<85, 83, 69, 82, 51, 50>>

----------------------------------------------------------------------------
(* Freestanding primitives: crt0.h and fnv1a.h.                            *)

\* *p of a NUL-terminated string, i counted from 1
CharAt(s, i) == IF i <= Len(s) THEN s[i] ELSE 0

\* if (c >= 'A' && c <= 'Z') c += ('a' - 'A');
FoldLower(c) == IF c >= 65 /\ c <= 90 THEN c + 32 ELSE c

RECURSIVE strcmp_at(_, _, _)
strcmp_at(lhs, rhs, i) ==
    IF CharAt(lhs, i) # 0 /\ CharAt(lhs, i) = CharAt(rhs, i)
    THEN strcmp_at(lhs, rhs, i + 1)
    ELSE CharAt(lhs, i) - CharAt(rhs, i)

strcmp(lhs, rhs) == strcmp_at(lhs, rhs, 1)

RECURSIVE stricmp_at(_, _, _)
stricmp_at(lhs, rhs, i) ==
    LET c1 == FoldLower(CharAt(lhs, i))
        c2 == FoldLower(CharAt(rhs, i))
    IN  IF c1 # 0 /\ c1 = c2 THEN stricmp_at(lhs, rhs, i + 1) ELSE c1 - c2

_stricmp(lhs, rhs) == stricmp_at(lhs, rhs, 1)

\* wide left operand, narrow right operand; same fold on both
_wcsicmpa(lhs, rhs) == stricmp_at(lhs, rhs, 1)

\* both operands wide; same fold on both
_wcsicmp(lhs, rhs) == stricmp_at(lhs, rhs, 1)

RECURSIVE BitXor(_, _)
BitXor(a, b) ==
    IF a = 0 THEN b
    ELSE IF b = 0 THEN a
    ELSE (((a % 2) + (b % 2)) % 2) + 2 * BitXor(a \div 2, b \div 2)

FNV_OFFSET_HI == 33052
FNV_OFFSET_LO == 40389
FNV_PRIME_LO == 403

\* Variant of the fold that leaves every byte as it is.
fnv1a_fold_none(byte) == byte

\* if (byte >= 'a') byte -= 0x20;
fnv1a_fold(byte) == IF byte >= 97 THEN byte - 32 ELSE byte

\* Variant of the round without the case fold.
fnv1a_round_no_fold(hash, ch) ==
    LET lo == BitXor(hash[2], ch % 256)
        plo == lo * FNV_PRIME_LO
    IN  << ((hash[1] * FNV_PRIME_LO) + (plo \div 65536) + ((lo % 256) * 256)) % 65536,
           plo % 65536 >>

\* one round of the loop: fold the byte, hash ^= byte, hash *= 0x01000193,
\* all modulo 2^32
fnv1a_round(hash, ch) ==
    LET b0 == ch % 256
        byte == fnv1a_fold(b0)
        lo == BitXor(hash[2], byte)
        plo == lo * FNV_PRIME_LO
    IN  << ((hash[1] * FNV_PRIME_LO) + (plo \div 65536) + ((lo % 256) * 256)) % 65536,
           plo % 65536 >>

RECURSIVE fnv1a_from(_, _, _)
fnv1a_from(hash, string, i) ==
    IF i > Len(string) THEN hash
    ELSE fnv1a_from(fnv1a_round(hash, string[i]), string, i + 1)

\* the names that occur in the model, and their hashes computed once
KnownNames ==
    {S_kernel32_dll, S_ntdll_dll, S_ntoskrnl_exe, S_user32_dll, S_ksecdd_sys,
     S_nope_dll, S_VirtualFree, S_GetProcAddress, S_LoadLibraryA, S_FreeLibrary,
     S_ExFreePool, S_ExAllocatePool, S_ZwQuerySystemInformation, S_Sleep,
     S_SecLookupAccountSid, S_MessageBoxA, W_KERNEL32_DLL, W_USER32_dll,
     W_payload_exe, S_sleep, S_DefWindowProcA, S_NtdllDefWindowProc_A}

KnownHashes ==
    [string \in KnownNames |->
        fnv1a_from(<<FNV_OFFSET_HI, FNV_OFFSET_LO>>, string, 1)]

fnv1a_hash(string) ==
    IF string \in KnownNames THEN KnownHashes[string]
    ELSE fnv1a_from(<<FNV_OFFSET_HI, FNV_OFFSET_LO>>, string, 1)

\* _T(s) without SCFW_ENABLE_XOR_STRING on a 64-bit target: the literal itself
_T(s) == s

----------------------------------------------------------------------------
(* Compile-time switches that are fixed in this model.                     *)

SCFW_ENABLE_FULL_MODULE_SEARCH == FALSE
SCFW_ENABLE_INIT_MODULES_BY_STRING == FALSE
SCFW_ENABLE_INIT_SYMBOLS_BY_STRING == FALSE

----------------------------------------------------------------------------
(* The host: images mapped or loadable, with their export directories.     *)
(* Names[] and Ordinals[] are parallel arrays; Ordinals[] holds 0-based    *)
(* indexes into Functions[], which holds RVAs.                             *)

UserImages == {"exe", "ntdll", "kernel32", "user32"}
KernelImages == {"ntoskrnl", "ksecdd"}
HostModules == UserImages \cup KernelImages

Base(m) ==
    CASE m = "exe" -> 4096
      [] m = "ntdll" -> 8192
      [] m = "kernel32" -> 12288
      [] m = "user32" -> 16384
      [] m = "ntoskrnl" -> 20480
      [] m = "ksecdd" -> 24576
      [] m = "long" -> 32768

BaseDllName(m) ==
    CASE m = "exe" -> W_payload_exe
      [] m = "ntdll" -> S_ntdll_dll
      [] m = "kernel32" -> W_KERNEL32_DLL
      [] m = "user32" -> W_USER32_dll
      [] m = "ntoskrnl" -> S_ntoskrnl_exe
      [] m = "ksecdd" -> S_ksecdd_sys
      [] m = "long" -> [i \in 1..60 |-> 97] \o <<46, 100, 108, 108>>

ExportDirectory(m) ==
    CASE m = "kernel32" ->
            [Names |-> <<S_FreeLibrary, S_GetProcAddress, S_LoadLibraryA,
                         S_Sleep, S_VirtualFree, S_sleep>>,
             Ordinals |-> <<0, 1, 2, 4, 3, 5>>,
             Functions |-> <<256, 272, 288, 304, 320, 336>>]
      [] m = "user32" ->
            [Names |-> <<S_MessageBoxA>>,
             Ordinals |-> <<0>>,
             Functions |-> <<512>>]
      [] m = "ntoskrnl" ->
            [Names |-> <<S_ExAllocatePool, S_ExFreePool,
                         S_ZwQuerySystemInformation>>,
             Ordinals |-> <<1, 0, 2>>,
             Functions |-> <<768, 784, 800>>]
      [] m = "ksecdd" ->
            [Names |-> <<S_SecLookupAccountSid>>,
             Ordinals |-> <<0>>,
             Functions |-> <<1024>>]
      [] OTHER -> [Names |-> <<>>, Ordinals |-> <<>>, Functions |-> <<>>]

\* seq without its k-th element; seq itself when k = 0
DropAt(seq, k) ==
    [i \in 1..(Len(seq) - (IF k = 0 THEN 0 ELSE 1)) |->
        IF k = 0 \/ i < k THEN seq[i] ELSE seq[i + 1]]

\* the export directory of m in a host that lacks the export named gone
Exports(m, gone) ==
    LET dir == ExportDirectory(m)
        at == {i \in 1..Len(dir.Names) : dir.Names[i] = gone}
        k == IF at = {} THEN 0 ELSE CHOOSE i \in at : TRUE
    IN  [Names |-> DropAt(dir.Names, k),
         Ordinals |-> DropAt(dir.Ordinals, k),
         Functions |-> dir.Functions]

IsImage(addr) == \E m \in HostModules : Base(m) = addr
ImageAt(addr) == CHOOSE m \in HostModules : Base(m) = addr

----------------------------------------------------------------------------
(* PE export lookup: common.h.  A comparator is the captured name or hash. *)

ByName(name) == [by |-> "strcmp", key |-> name]
ByHash(hash) == [by |-> "fnv1a", key |-> hash]

\* the two lambdas of windows::lookup_symbol
export_comparator(c, export_name) ==
    IF c.by = "strcmp" THEN strcmp(export_name, c.key) = 0
    ELSE fnv1a_hash(export_name) = c.key

\* Variant of the scan that starts at index 0 and goes up.
RECURSIVE lookup_symbol_scan_ascending(_, _, _, _)
lookup_symbol_scan_ascending(ImageBase, dir, Index, comparator) ==
    IF Index = 0 THEN 0
    ELSE LET below == lookup_symbol_scan_ascending(ImageBase, dir, Index - 1, comparator)
         IN  IF below # 0 THEN below
             ELSE IF export_comparator(comparator, dir.Names[Index])
                  THEN ImageBase + dir.Functions[dir.Ordinals[Index] + 1]
                  ELSE 0

\* for (ULONG Index = NumberOfNames; Index--;): Index here is one more than
\* the code's, so the loop ends at 0
RECURSIVE lookup_symbol_scan(_, _, _, _)
lookup_symbol_scan(ImageBase, dir, Index, comparator) ==
    IF Index = 0 THEN 0
    ELSE IF export_comparator(comparator, dir.Names[Index])
         THEN ImageBase + dir.Functions[dir.Ordinals[Index] + 1]
         ELSE lookup_symbol_scan(ImageBase, dir, Index - 1, comparator)

lookup_symbol_impl(module, gone, comparator) ==
    LET dir == Exports(ImageAt(module), gone)
    IN  lookup_symbol_scan(module, dir, Len(dir.Names), comparator)

----------------------------------------------------------------------------
(* User-mode module lookup over the loader list: common.h, usermode.h.     *)

\* Variant of the comparators that compares the names byte for byte.
module_comparator_exact(c, module) ==
    IF c.by = "strcmp" THEN strcmp(module, c.key) = 0
    ELSE fnv1a_hash(module) = c.key

\* the three lambdas of usermode::find_module
module_comparator(c, module) ==
    IF c.by = "strcmp" THEN _wcsicmpa(module, c.key) = 0
    ELSE fnv1a_hash(module) = c.key

RECURSIVE find_module_walk(_, _, _)
find_module_walk(list, k, comparator) ==
    IF k > Len(list) THEN 0
    ELSE IF module_comparator(comparator, BaseDllName(list[k]))
         THEN Base(list[k])
         ELSE find_module_walk(list, k + 1, comparator)

usermode_find_module_impl(list, comparator) == find_module_walk(list, 1, comparator)

\* the host keeps the executable, ntdll and kernel32 first in the list
find_module_ntdll(list) == Base(list[2])
find_module_kernel32(list) == Base(list[3])

HASH_ntdll_dll == fnv1a_hash(S_ntdll_dll)
HASH_kernel32_dll == fnv1a_hash(S_kernel32_dll)
HASH_ntoskrnl_exe == fnv1a_hash(S_ntoskrnl_exe)

usermode_traits_find_module(list, c) ==
    IF ~SCFW_ENABLE_FULL_MODULE_SEARCH
       /\ (IF c.by = "strcmp" THEN _stricmp(c.key, S_ntdll_dll) = 0
           ELSE c.key = HASH_ntdll_dll)
    THEN find_module_ntdll(list)
    ELSE IF ~SCFW_ENABLE_FULL_MODULE_SEARCH
            /\ (IF c.by = "strcmp" THEN _stricmp(c.key, S_kernel32_dll) = 0
                ELSE c.key = HASH_kernel32_dll)
         THEN find_module_kernel32(list)
         ELSE usermode_find_module_impl(list, c)

----------------------------------------------------------------------------
(* Kernel-mode module lookup: kernelmode.h, common.h.  The module array is *)
(* the one ZwQuerySystemInformation fills once the buffer is large enough. *)

SystemModules == <<"ntoskrnl", "ksecdd">>

\* the two lambdas of kernelmode::find_module
\* Variant of the comparator that compares the module name byte for byte.
kernel_module_comparator_exact(c, module_name) ==
    IF c.by = "strcmp" THEN strcmp(module_name, c.key) = 0
    ELSE fnv1a_hash(module_name) = c.key

kernel_module_comparator(c, module_name) ==
    IF c.by = "strcmp" THEN _stricmp(module_name, c.key) = 0
    ELSE fnv1a_hash(module_name) = c.key

\* for (ULONG Index = 0; Index < Modules->NumberOfModules; Index++): Index
\* here is one more than the code's
RECURSIVE module_array_scan(_, _, _)
module_array_scan(Modules, Index, comparator) ==
    IF Index > Len(Modules) THEN 0
    ELSE IF kernel_module_comparator(comparator, BaseDllName(Modules[Index]))
         THEN Base(Modules[Index])
         ELSE module_array_scan(Modules, Index + 1, comparator)

kernel_module_scan(Index, comparator) ==
    module_array_scan(SystemModules, Index, comparator)

----------------------------------------------------------------------------
(* The dispatch table and the state init and destroy thread through.       *)
(* A call of a null function pointer ends the process (crashed).           *)

NoImport == <<>>

\* Variant of dispatch_table_fields that declares free_ after the optional
\* function pointers instead of next to cleanup_.
dispatch_table_fields_free_last(fs) ==
    (IF "CLEANUP" \in fs THEN <<"cleanup_">> ELSE <<>>)
    \o (IF "LOAD_MODULE" \in fs THEN <<"load_module_">> ELSE <<>>)
    \o (IF "UNLOAD_MODULE" \in fs THEN <<"unload_module_">> ELSE <<>>)
    \o (IF "LOOKUP_SYMBOL" \in fs THEN <<"lookup_symbol_">> ELSE <<>>)
    \o (IF "CLEANUP" \in fs THEN <<"free_">> ELSE <<>>)

\* dispatch_table_fields: the members each #ifdef leaves, in declaration order
dispatch_table_fields(fs) ==
    (IF "CLEANUP" \in fs THEN <<"cleanup_", "free_">> ELSE <<>>)
    \o (IF "LOAD_MODULE" \in fs THEN <<"load_module_">> ELSE <<>>)
    \o (IF "UNLOAD_MODULE" \in fs THEN <<"unload_module_">> ELSE <<>>)
    \o (IF "LOOKUP_SYMBOL" \in fs THEN <<"lookup_symbol_">> ELSE <<>>)

\* dispatch_table_fields: the members that exist under a feature set
HeaderFields(fs) ==
    {dispatch_table_fields(fs)[i] : i \in DOMAIN dispatch_table_fields(fs)}

Member(field, id) == [field |-> field, id |-> id]

\* dispatch_table_storage: the fields, then mode_ unless mode_traits is empty
dispatch_table_storage(m, fs) ==
    [i \in DOMAIN dispatch_table_fields(fs) |-> Member(dispatch_table_fields(fs)[i], 0)]
    \o (IF m = "kernel_mode" THEN <<Member("mode_", 0)>> ELSE <<>>)

\* dispatch_table_impl<N>: the members of the base, then the one member of
\* entry N (module_ of IMPORT_MODULE, slot_Name_ of IMPORT_SYMBOL)
RECURSIVE dispatch_table_impl(_, _, _, _)
dispatch_table_impl(m, fs, ds, N) ==
    IF N = 0 THEN dispatch_table_storage(m, fs)
    ELSE Append(dispatch_table_impl(m, fs, ds, N - 1),
                Member(IF ds[N].kind = "module" THEN "module_" ELSE "slot_", N))

\* offsetof(T, member) for a table of pointer-sized members of w bytes each
offsetof(T, member, w) == w * ((CHOOSE i \in DOMAIN T : T[i] = member) - 1)

\* address of _cleanup_usermode / _cleanup_kernelmode inside the payload
cleanup_stub == 28688

Event(op, id, by, arg, on, ret) ==
    [op |-> op, id |-> id, by |-> by, arg |-> arg, on |-> on, ret |-> ret]

Returned(st, e) == [st EXCEPT !.calls = Append(@, e), !.ret = e.ret]
Crashed(st, e) == [st EXCEPT !.calls = Append(@, e), !.crashed = TRUE]

SCFW__MODULE(x) ==
    IF SCFW_ENABLE_INIT_MODULES_BY_STRING THEN ByName(x) ELSE ByHash(fnv1a_hash(x))
SCFW__SYMBOL(x) ==
    IF SCFW_ENABLE_INIT_SYMBOLS_BY_STRING THEN ByName(x) ELSE ByHash(fnv1a_hash(x))

\* mode::lookup_symbol<F>(module, name | hash): the PE parse; reading the
\* headers of an address that holds no image faults
mode_lookup_symbol(st, id, module, c) ==
    IF ~IsImage(module)
    THEN Crashed(st, Event("lookup_symbol", id, c.by, c.key, module, -1))
    ELSE Returned(st, Event("lookup_symbol", id, c.by, c.key, module,
                            lookup_symbol_impl(module, missing, c)))

\* LoadLibraryA of the host: maps the image if it is on disk, counts the load
HostLoadLibraryA(st, name) ==
    LET found == {m \in UserImages : _stricmp(BaseDllName(m), name) = 0}
    IN  IF found = {} THEN [st EXCEPT !.ret = 0]
        ELSE LET m == CHOOSE x \in found : TRUE
             IN  [st EXCEPT !.ret = Base(m),
                            !.refs[m] = @ + 1,
                            !.ldr = IF st.refs[m] = 0 THEN Append(@, m) ELSE @]

\* FreeLibrary of the host: drops one load, unmaps the image at zero
HostFreeLibrary(st, module) ==
    LET found == {m \in UserImages : Base(m) = module /\ st.refs[m] > 0}
    IN  IF found = {} THEN st
        ELSE LET m == CHOOSE x \in found : TRUE
             IN  [st EXCEPT !.refs[m] = @ - 1,
                            !.ldr = IF st.refs[m] = 1
                                    THEN SelectSeq(@, LAMBDA x : x # m) ELSE @]

\* GetProcAddress of the host: the export with exactly this name
HostGetProcAddress(module, name) ==
    IF ~IsImage(module) THEN 0
    ELSE LET dir == Exports(ImageAt(module), missing)
             at == {i \in 1..Len(dir.Names) : dir.Names[i] = name}
         IN  IF at = {} THEN 0
             ELSE module + dir.Functions[dir.Ordinals[CHOOSE i \in at : TRUE] + 1]

\* dispatch_table_impl<0, user_mode>::load_module
load_module(st, id, name) ==
    IF st.hdr["load_module_"] = 0
    THEN Crashed(st, Event("load_module", id, "name", name, 0, -1))
    ELSE LET h == HostLoadLibraryA(st, name)
         IN  Returned(h, Event("load_module", id, "name", name, 0, h.ret))

\* dispatch_table_impl<0, user_mode>::unload_module
unload_module(st, id, module) ==
    IF st.hdr["unload_module_"] = 0
    THEN Crashed(st, Event("unload_module", id, "handle", <<>>, module, -1))
    ELSE Returned(HostFreeLibrary(st, module),
                  Event("unload_module", id, "handle", <<>>, module, 0))

\* dispatch_table_impl<0, user_mode>::lookup_symbol: through lookup_symbol_
lookup_symbol(st, id, module, name) ==
    IF st.hdr["lookup_symbol_"] = 0
    THEN Crashed(st, Event("lookup_symbol_", id, "name", name, module, -1))
    ELSE Returned(st, Event("lookup_symbol_", id, "name", name, module,
                            HostGetProcAddress(module, name)))

\* kernelmode::find_module_impl on the path where the first query reports
\* the length and the second fills the buffer
kernelmode_find_module_impl(st, id, c) ==
    LET pExAllocatePool == lookup_symbol_impl(st.kernel_base, missing,
                                              SCFW__SYMBOL(S_ExAllocatePool))
        pExFreePool == lookup_symbol_impl(st.kernel_base, missing,
                                          SCFW__SYMBOL(S_ExFreePool))
        pZwQuerySystemInformation ==
            lookup_symbol_impl(st.kernel_base, missing,
                               SCFW__SYMBOL(S_ZwQuerySystemInformation))
    IN  IF pZwQuerySystemInformation = 0 \/ pExAllocatePool = 0 \/ pExFreePool = 0
        THEN Crashed(st, Event("find_module", id, c.by, c.key, 0, -1))
        ELSE Returned(st, Event("find_module", id, c.by, c.key, 0,
                                kernel_module_scan(1, c)))

\* mode_traits<kernel_mode>::find_module
kernelmode_traits_find_module(st, id, c) ==
    IF (IF c.by = "strcmp" THEN _stricmp(c.key, S_ntoskrnl_exe) = 0
        ELSE c.key = HASH_ntoskrnl_exe)
    THEN Returned(st, Event("find_module", id, c.by, c.key, 0, st.kernel_base))
    ELSE IF ~IsImage(st.kernel_base)
         THEN Crashed(st, Event("find_module", id, c.by, c.key, 0, -1))
         ELSE kernelmode_find_module_impl(st, id, c)

\* dispatch_table_impl<0, Mode>::find_module
find_module(st, id, c) ==
    IF mode = "user_mode"
    THEN Returned(st, Event("find_module", id, c.by, c.key, 0,
                            usermode_traits_find_module(st.ldr, c)))
    ELSE kernelmode_traits_find_module(st, id, c)

----------------------------------------------------------------------------
(* Base-level init and destroy of the platform backends.                   *)

\* this->field = mode::lookup_symbol<...>(module, SCFW__SYMBOL(name)),
\* compiled only under its feature switch
header_resolve(st, feature, field, module, name) ==
    IF feature \notin features \/ st.crashed THEN st
    ELSE LET r == mode_lookup_symbol(st, 0, module, SCFW__SYMBOL(name))
         IN  IF r.crashed THEN r ELSE [r EXCEPT !.hdr[field] = r.ret]

\* dispatch_table_impl<0, user_mode>::init
usermode_base_init(st, a1, a2) ==
    LET s0 == IF "CLEANUP" \in features
              THEN [st EXCEPT !.hdr["cleanup_"] = cleanup_stub] ELSE st
        s1 == IF features # {} THEN find_module(s0, 0, SCFW__MODULE(S_kernel32_dll))
              ELSE s0
        kernel32 == s1.ret
        s2 == header_resolve(s1, "CLEANUP", "free_", kernel32, S_VirtualFree)
        s3 == header_resolve(s2, "LOOKUP_SYMBOL", "lookup_symbol_", kernel32,
                             S_GetProcAddress)
        s4 == header_resolve(s3, "LOAD_MODULE", "load_module_", kernel32,
                             S_LoadLibraryA)
        s5 == header_resolve(s4, "UNLOAD_MODULE", "unload_module_", kernel32,
                             S_FreeLibrary)
    IN  IF s5.crashed THEN s5 ELSE [s5 EXCEPT !.err = 0]

\* dispatch_table_impl<0, kernel_mode>::init
kernelmode_base_init(st, a1, a2) ==
    LET s0 == IF "CLEANUP" \in features
              THEN [st EXCEPT !.hdr["cleanup_"] = cleanup_stub] ELSE st
        s1 == header_resolve(s0, "CLEANUP", "free_", a1, S_ExFreePool)
    IN  IF s1.crashed THEN s1
        ELSE [s1 EXCEPT !.kernel_base = a1, !.err = 0]

base_init(st, a1, a2) ==
    IF mode = "user_mode" THEN usermode_base_init(st, a1, a2)
    ELSE kernelmode_base_init(st, a1, a2)

\* dispatch_table_impl<0, Mode>::destroy: empty in both backends
base_destroy(st, a1, a2) == st

----------------------------------------------------------------------------
(* The entries declared by IMPORT_MODULE and IMPORT_SYMBOL.                *)
(* Entry n is dispatch_table_impl<n>, declared with Id = n - 1.            *)

\* Variant that takes the flags of the first entry of the kind instead of
\* the nearest one.
lookup_flags_first(ds, Id, EntryKind) ==
    IF \E k \in 1..Id : ds[k].kind = EntryKind
    THEN ds[CHOOSE k \in 1..Id : ds[k].kind = EntryKind
                                 /\ \A j \in 1..(k - 1) : ds[j].kind # EntryKind].flags
    ELSE 0

\* lookup_flags<Id, Mode, EntryKind>::get() over the declarations ds
RECURSIVE lookup_flags(_, _, _)
lookup_flags(ds, Id, EntryKind) ==
    IF Id = 0 THEN 0
    ELSE IF ds[Id].kind # EntryKind THEN lookup_flags(ds, Id - 1, EntryKind)
    ELSE ds[Id].flags

\* current_module() as entry n inherits it: module_ of the nearest module
\* entry at or below n, nullptr at the base level
RECURSIVE current_module(_, _, _)
current_module(ds, n, table) ==
    IF n = 0 THEN 0
    ELSE IF ds[n].kind = "module" THEN table[n]
    ELSE current_module(ds, n - 1, table)

\* Variant that tests SCFW_FLAG_STRING_MODULE before SCFW_FLAG_DYNAMIC_LOAD.
module_resolve_string_first(st, n, Module, module_flags) ==
    IF HasFlag(module_flags, SCFW_FLAG_STRING_MODULE)
    THEN find_module(st, n, ByName(_T(Module)))
    ELSE IF HasFlag(module_flags, SCFW_FLAG_DYNAMIC_LOAD)
         THEN load_module(st, n, _T(Module))
         ELSE find_module(st, n, ByHash(fnv1a_hash(Module)))

\* the resolution of SCFW_IMPORT_MODULE_IMPL::init after the parent's init
module_resolve(st, n, Module, module_flags) ==
    IF HasFlag(module_flags, SCFW_FLAG_DYNAMIC_LOAD)
    THEN load_module(st, n, _T(Module))
    ELSE IF HasFlag(module_flags, SCFW_FLAG_STRING_MODULE)
         THEN find_module(st, n, ByName(_T(Module)))
         ELSE find_module(st, n, ByHash(fnv1a_hash(Module)))

\* Variant that returns Id instead of Id + 1.
module_result_id(n, module_) == IF module_ = 0 THEN n - 1 ELSE 0

\* if (!module_) return Id + 1; return 0;
module_result(n, module_) == IF module_ = 0 THEN n ELSE 0

module_init(st, n) ==
    LET r == module_resolve(st, n, decls[n].name, decls[n].flags)
    IN  IF r.crashed THEN r
        ELSE [r EXCEPT !.slots[n] = r.ret, !.err = module_result(n, r.ret)]

\* the constexpr bools dynamic_resolve and string_symbol of a symbol's init
symbol_dynamic_resolve(entry_flags, parent_flags) ==
    HasFlag(entry_flags, SCFW_FLAG_DYNAMIC_RESOLVE)
    \/ HasFlag(parent_flags, SCFW_FLAG_DYNAMIC_RESOLVE)

symbol_string_symbol(entry_flags, parent_flags) ==
    HasFlag(entry_flags, SCFW_FLAG_STRING_SYMBOL)
    \/ HasFlag(parent_flags, SCFW_FLAG_STRING_SYMBOL)

\* Variant that tests string_symbol before dynamic_resolve.
symbol_resolve_string_first(st, n, Name, entry_flags, parent_flags) ==
    IF symbol_string_symbol(entry_flags, parent_flags)
    THEN mode_lookup_symbol(st, n, current_module(decls, n, st.slots),
                            ByName(_T(Name)))
    ELSE IF symbol_dynamic_resolve(entry_flags, parent_flags)
         THEN lookup_symbol(st, n, current_module(decls, n, st.slots), _T(Name))
         ELSE mode_lookup_symbol(st, n, current_module(decls, n, st.slots),
                                 ByHash(fnv1a_hash(Name)))

\* the resolution of SCFW_IMPORT_SYMBOL::init after the parent's init
symbol_resolve(st, n, Name, entry_flags, parent_flags) ==
    IF symbol_dynamic_resolve(entry_flags, parent_flags)
    THEN lookup_symbol(st, n, current_module(decls, n, st.slots), _T(Name))
    ELSE IF symbol_string_symbol(entry_flags, parent_flags)
         THEN mode_lookup_symbol(st, n, current_module(decls, n, st.slots),
                                 ByName(_T(Name)))
         ELSE mode_lookup_symbol(st, n, current_module(decls, n, st.slots),
                                 ByHash(fnv1a_hash(Name)))

\* Variant that reports success whatever was stored in the slot.
symbol_result_unchecked(n, slot) == 0

\* return slot_Name_ ? 0 : Id + 1;
symbol_result(n, slot) == IF slot # 0 THEN 0 ELSE n

symbol_init(st, n) ==
    LET r == symbol_resolve(st, n, decls[n].name, decls[n].flags,
                            lookup_flags(decls, n - 1, "module"))
    IN  IF r.crashed THEN r
        ELSE [r EXCEPT !.slots[n] = r.ret, !.err = symbol_result(n, r.ret)]

\* Variant of init that goes on to the own part whatever the parent returned.
RECURSIVE init_ignores_parent_error(_, _, _, _)
init_ignores_parent_error(st, n, a1, a2) ==
    IF n = 0 THEN base_init(st, a1, a2)
    ELSE LET parent == init_ignores_parent_error(st, n - 1, a1, a2)
         IN  IF parent.crashed THEN parent
             ELSE IF decls[n].kind = "module" THEN module_init(parent, n)
             ELSE symbol_init(parent, n)

\* auto err = parent::init(...); if (err) return err; then the own part
RECURSIVE init(_, _, _, _)
init(st, n, a1, a2) ==
    IF n = 0 THEN base_init(st, a1, a2)
    ELSE LET parent == init(st, n - 1, a1, a2)
         IN  IF parent.crashed \/ parent.err # 0 THEN parent
             ELSE IF decls[n].kind = "module" THEN module_init(parent, n)
             ELSE symbol_init(parent, n)

\* Variant that releases every dynamically loaded handle of a build that
\* has unload_module, whether or not the entry asks for it.
module_unloads_by_switch(module_flags, module_) ==
    HasFlag(module_flags, SCFW_FLAG_DYNAMIC_LOAD)
    /\ "UNLOAD_MODULE" \in features
    /\ module_ # 0

\* whether SCFW_IMPORT_MODULE_IMPL::destroy releases the handle
module_unloads(module_flags, module_) ==
    HasFlag(module_flags, SCFW_FLAG_DYNAMIC_LOAD)
    /\ HasFlag(module_flags, SCFW_FLAG_DYNAMIC_UNLOAD)
    /\ module_ # 0

module_destroy(st, n) ==
    IF module_unloads(decls[n].flags, st.slots[n])
    THEN unload_module(st, n, current_module(decls, n, st.slots))
    ELSE st

\* control enters the destroy of dispatch_table_impl<n>
destroy_entered(st, n) ==
    [st EXCEPT !.calls = Append(@, Event("destroy", n, "chain", <<>>, 0, 0))]

\* the part of a destroy that is the entry's own
own_destroy(st, n) ==
    IF decls[n].kind = "module" THEN module_destroy(st, n) ELSE st

\* Variant of destroy that calls parent::destroy(...) before the own teardown.
RECURSIVE destroy_parent_first(_, _, _, _)
destroy_parent_first(st, n, a1, a2) ==
    IF st.crashed THEN st
    ELSE IF n = 0 THEN base_destroy(destroy_entered(st, 0), a1, a2)
    ELSE LET parent == destroy_parent_first(st, n - 1, a1, a2)
         IN  IF parent.crashed THEN parent
             ELSE own_destroy(destroy_entered(parent, n), n)

\* the own teardown first, then parent::destroy(...)
RECURSIVE destroy(_, _, _, _)
destroy(st, n, a1, a2) ==
    IF st.crashed THEN st
    ELSE IF n = 0 THEN base_destroy(destroy_entered(st, 0), a1, a2)
    ELSE destroy(own_destroy(destroy_entered(st, n), n), n - 1, a1, a2)

----------------------------------------------------------------------------
(* Translation: static assertions, template instantiation, linking.        *)

Diagnostic(kind, import) == [kind |-> kind, import |-> import]

\* static_assert of SCFW_IMPORT_MODULE_IMPL; the message starts with Module
module_static_assert(Module, Flags) ==
    IF HasFlag(Flags, SCFW_FLAG_DYNAMIC_UNLOAD) /\ ~HasFlag(Flags, SCFW_FLAG_DYNAMIC_LOAD)
    THEN {Diagnostic("DYNAMIC_UNLOAD requires DYNAMIC_LOAD", Module)}
    ELSE {}

\* Variant without the static_asserts.
symbol_static_assert_none(Name, Flags) == {}

\* the three static_asserts of SCFW_IMPORT_SYMBOL; each message starts with #Name
symbol_static_assert(Name, Flags) ==
    (IF HasFlag(Flags, SCFW_FLAG_DYNAMIC_LOAD)
     THEN {Diagnostic("DYNAMIC_LOAD can only be used with IMPORT_MODULE", Name)}
     ELSE {})
    \cup (IF HasFlag(Flags, SCFW_FLAG_DYNAMIC_UNLOAD)
          THEN {Diagnostic("DYNAMIC_UNLOAD can only be used with IMPORT_MODULE", Name)}
          ELSE {})
    \cup (IF HasFlag(Flags, SCFW_FLAG_STRING_MODULE)
          THEN {Diagnostic("STRING_MODULE can only be used with IMPORT_MODULE", Name)}
          ELSE {})

\* Variant in which lookup_flags<0, ...>::get() is well-formed and yields 0.
lookup_flags_base_yields_zero(ds, Id) == {}

\* lookup_flags<0, ...>::get() names dispatch_table_impl<0, Mode>::entry_type,
\* which does not exist: a symbol's init instantiates it when no module
\* entry lies between the symbol and the base
lookup_flags_ill_formed(ds, Id) ==
    IF \A k \in 1..Id : ds[k].kind # "module"
    THEN {Diagnostic("entry_type is not a member of dispatch_table_impl<0>", NoImport)}
    ELSE {}

\* static_assert(false, ...) of mode_traits<kernel_mode>, under the feature switches
kernel_mode_static_assert(fs) ==
    (IF "LOAD_MODULE" \in fs
     THEN {Diagnostic("Dynamic module loading is not supported in kernel mode", NoImport)}
     ELSE {})
    \cup (IF "UNLOAD_MODULE" \in fs
          THEN {Diagnostic("Dynamic module unloading is not supported in kernel mode", NoImport)}
          ELSE {})
    \cup (IF "LOOKUP_SYMBOL" \in fs
          THEN {Diagnostic("Dynamic symbol lookup is not supported in kernel mode", NoImport)}
          ELSE {})

\* members of dispatch_table_impl<0, Mode> that init or destroy call outside
\* a discarded statement; each is defined only in usermode.h, under its switch
UsesLoadModule(ds) ==
    \E n \in 1..Len(ds) : ds[n].kind = "module"
                          /\ HasFlag(ds[n].flags, SCFW_FLAG_DYNAMIC_LOAD)
UsesUnloadModule(ds) ==
    \E n \in 1..Len(ds) : ds[n].kind = "module"
                          /\ HasFlag(ds[n].flags, SCFW_FLAG_DYNAMIC_LOAD)
                          /\ HasFlag(ds[n].flags, SCFW_FLAG_DYNAMIC_UNLOAD)
UsesLookupSymbol(ds) ==
    \E n \in 1..Len(ds) : ds[n].kind = "symbol"
                          /\ symbol_dynamic_resolve(ds[n].flags,
                                                    lookup_flags(ds, n - 1, "module"))

unresolved_externals(ds, m, fs) ==
    (IF UsesLoadModule(ds) /\ ~(m = "user_mode" /\ "LOAD_MODULE" \in fs)
     THEN {Diagnostic("unresolved external load_module", NoImport)} ELSE {})
    \cup (IF UsesUnloadModule(ds) /\ ~(m = "user_mode" /\ "UNLOAD_MODULE" \in fs)
          THEN {Diagnostic("unresolved external unload_module", NoImport)} ELSE {})
    \cup (IF UsesLookupSymbol(ds) /\ ~(m = "user_mode" /\ "LOOKUP_SYMBOL" \in fs)
          THEN {Diagnostic("unresolved external lookup_symbol", NoImport)} ELSE {})

----------------------------------------------------------------------------
(* Inputs of the model.                                                    *)

Decl(kind, name, flags) == [kind |-> kind, name |-> name, flags |-> flags]

FeatureSets == SUBSET {"CLEANUP", "LOAD_MODULE", "UNLOAD_MODULE", "LOOKUP_SYMBOL"}

\* the export a host may lack: one that the base init of this build looks up
MissingChoices(m, fs) ==
    {NoImport}
    \cup (IF m = "kernel_mode" THEN {S_ExFreePool}
          ELSE IF fs = {"CLEANUP", "LOAD_MODULE", "UNLOAD_MODULE", "LOOKUP_SYMBOL"}
               THEN {S_VirtualFree, S_GetProcAddress, S_LoadLibraryA, S_FreeLibrary}
               ELSE {})

ModuleDecls(m) ==
    IF m = "user_mode"
    THEN {Decl("module", S_kernel32_dll, 0),
          Decl("module", S_kernel32_dll, SCFW_FLAG_DYNAMIC_RESOLVE),
          Decl("module", S_kernel32_dll, SCFW_FLAG_STRING_SYMBOL),
          Decl("module", S_user32_dll, SCFW_FLAG_STRING_MODULE),
          Decl("module", S_user32_dll, SCFW_FLAG_DYNAMIC_LOAD),
          Decl("module", S_user32_dll,
               SCFW_FLAG_DYNAMIC_LOAD + SCFW_FLAG_DYNAMIC_UNLOAD),
          Decl("module", S_user32_dll,
               SCFW_FLAG_DYNAMIC_LOAD + SCFW_FLAG_STRING_MODULE),
          Decl("module", S_nope_dll, SCFW_FLAG_DYNAMIC_LOAD),
          Decl("module", S_user32_dll, SCFW_FLAG_DYNAMIC_UNLOAD)}
    ELSE {Decl("module", S_ntoskrnl_exe, 0),
          Decl("module", S_ntoskrnl_exe, SCFW_FLAG_STRING_MODULE),
          Decl("module", S_ksecdd_sys, 0),
          Decl("module", S_ksecdd_sys, SCFW_FLAG_STRING_MODULE),
          Decl("module", S_nope_dll, 0),
          Decl("module", S_ksecdd_sys, SCFW_FLAG_DYNAMIC_LOAD),
          Decl("module", S_ksecdd_sys, SCFW_FLAG_DYNAMIC_UNLOAD)}

SymbolDecls(m) ==
    IF m = "user_mode"
    THEN {Decl("symbol", S_Sleep, 0),
          Decl("symbol", S_Sleep, SCFW_FLAG_STRING_SYMBOL),
          Decl("symbol", S_Sleep, SCFW_FLAG_DYNAMIC_RESOLVE),
          Decl("symbol", S_MessageBoxA, 0),
          Decl("symbol", S_Sleep, SCFW_FLAG_DYNAMIC_LOAD)}
    ELSE {Decl("symbol", S_ExAllocatePool, 0),
          Decl("symbol", S_ExAllocatePool, SCFW_FLAG_STRING_SYMBOL),
          Decl("symbol", S_SecLookupAccountSid, 0),
          Decl("symbol", S_ExAllocatePool, SCFW_FLAG_DYNAMIC_RESOLVE),
          Decl("symbol", S_ExAllocatePool, SCFW_FLAG_STRING_MODULE)}

----------------------------------------------------------------------------
(* Compile-time string obfuscation: xorstr.h.                              *)

MaxLine == 32
MaxDecodes == 3

\* xor_key<CharT>::type: uint8_t for char, uint16_t for wchar_t
KeyRange(CharT) == IF CharT = "char" THEN 256 ELSE 65536
KeySize(CharT) == IF CharT = "char" THEN 1 ELSE 2

\* x | 1
Or1(x) == IF x % 2 = 0 THEN x + 1 ELSE x

\* SCFW_XOR_KEY(c, CharT), converted to the key type
SCFW_XOR_KEY(c, CharT) ==
    IF CharT = "char" THEN Or1((c * 158) + 90) % 256
    ELSE Or1((c * 40503) + 23130) % 65536

\* xor_string<CharT, N>::xor_string(str, k); str is s and its terminator
xor_string(str, k, CharT) ==
    [key |-> k,
     len |-> (Len(str) - 1) % KeyRange(CharT),
     data |-> [i \in 1..Len(str) |-> BitXor(str[i], k)]]

\* where _xstr lies, and the pointer decode_xor returns: p + 2
XSTR_ADDR == 28800
decode_xor_result(CharT) == XSTR_ADDR + (2 * KeySize(CharT))

\* the literals of the model; the long ones have 255 and 256 characters
LongLiteral(n) == [i \in 1..n |-> 97 + (i % 26)]
Literals ==
    {<<>>, <<65>>, <<72, 105>>, S_kernel32_dll, LongLiteral(255), LongLiteral(256)}

NoRecord == [key |-> 0, len |-> 0, data |-> <<>>]
NoLiteral == [chars |-> <<>>, CharT |-> "char", line |-> 0]

XorIdle ==
    /\ literal = NoLiteral
    /\ xstr = NoRecord
    /\ xpc = "unused"
    /\ xi = 0
    /\ xlog = <<>>

HashIdle == hstr = NoLiteral /\ hout = <<>>
PicIdle == target = "x64" /\ load_base = <<0, 0>> /\ pic_log = <<>>
ExportIdle == image = NoRecord /\ lookups = <<>>

ForwardIdle == fhost = NoRecord /\ chase = NoRecord
FindIdle == floader = <<>> /\ finds = <<>>
KqIdle == ksys = NoRecord /\ kq = NoRecord
FoldIdle == fold_in = <<>> /\ fold_out = <<>>
BodyIdle == body = NoRecord
ExtIdle == ForwardIdle /\ FindIdle /\ KqIdle /\ FoldIdle /\ BodyIdle

LibIdle == XorIdle /\ HashIdle /\ PicIdle /\ ExportIdle /\ ExtIdle

----------------------------------------------------------------------------
(* The state machine.                                                      *)

Init ==
    /\ mode \in {"user_mode", "kernel_mode"}
    /\ features \in FeatureSets
    /\ missing \in MissingChoices(mode, features)
    /\ argument1 = IF mode = "kernel_mode" THEN Base("ntoskrnl") ELSE 1
    /\ argument2 = 2
    /\ decls = <<>>
    /\ diag = {}
    /\ pc = "include"
    /\ hdr = <<>>
    /\ kernel_base = 0
    /\ slots = <<>>
    /\ err = -1
    /\ ldr = IF mode = "user_mode" THEN <<"exe", "ntdll", "kernel32">> ELSE <<>>
    /\ refs = [m \in HostModules |->
                 IF mode = "user_mode" /\ m \in {"exe", "ntdll", "kernel32"}
                 THEN 1 ELSE 0]
    /\ shim = <<>>
    /\ calls = <<>>
    /\ LibIdle

\* #include of usermode.h or kernelmode.h
IncludePlatform ==
    /\ pc = "include"
    /\ diag' = IF mode = "kernel_mode" THEN kernel_mode_static_assert(features) ELSE {}
    /\ pc' = IF diag' = {} THEN "declare" ELSE "rejected"
    /\ UNCHANGED <<mode, features, missing, argument1, argument2, decls, hdr,
                   kernel_base, slots, err, ldr, refs, shim, calls>>
    /\ UNCHANGED lib_vars

\* IMPORT_MODULE(Module, FLAGS(Flags))
IMPORT_MODULE(d) ==
    /\ pc = "declare"
    /\ Len(decls) < MaxImports
    /\ decls' = Append(decls, d)
    /\ diag' = module_static_assert(d.name, d.flags)
    /\ pc' = IF diag' = {} THEN "declare" ELSE "rejected"
    /\ UNCHANGED <<mode, features, missing, argument1, argument2, hdr,
                   kernel_base, slots, err, ldr, refs, shim, calls>>
    /\ UNCHANGED lib_vars

\* IMPORT_SYMBOL(Name, FLAGS(Flags))
IMPORT_SYMBOL(d) ==
    /\ pc = "declare"
    /\ Len(decls) < MaxImports
    /\ decls' = Append(decls, d)
    /\ diag' = symbol_static_assert(d.name, d.flags)
               \cup lookup_flags_ill_formed(decls, Len(decls))
    /\ pc' = IF diag' = {} THEN "declare" ELSE "rejected"
    /\ UNCHANGED <<mode, features, missing, argument1, argument2, hdr,
                   kernel_base, slots, err, ldr, refs, shim, calls>>
    /\ UNCHANGED lib_vars

\* IMPORT_END() and the link: __dispatch_table is zero-initialized
IMPORT_END ==
    /\ pc = "declare"
    /\ diag' = unresolved_externals(decls, mode, features)
    /\ pc' = IF diag' = {} THEN "built" ELSE "rejected"
    /\ hdr' = [f \in HeaderFields(features) |-> 0]
    /\ slots' = [n \in 1..Len(decls) |-> 0]
    /\ UNCHANGED <<mode, features, missing, argument1, argument2, decls,
                   kernel_base, err, ldr, refs, shim, calls>>
    /\ UNCHANGED lib_vars

ShimCall(op) == [op |-> op, a1 |-> argument1, a2 |-> argument2]

Table == [hdr |-> hdr, kernel_base |-> kernel_base, slots |-> slots, ldr |-> ldr,
          refs |-> refs, calls |-> calls, err |-> 0, crashed |-> FALSE, ret |-> 0]

\* Variants of the shim's branch on err. The first goes from a successful init
\* straight to destroy; the second runs the body whatever init returned.
entry_after_init_skips_body(e) == IF e # 0 THEN "done" ELSE "destroy"
entry_after_init_ignores_err(e) == "user"

\* if (err) return; otherwise on to entry(argument1, argument2)
entry_after_init(e) == IF e # 0 THEN "done" ELSE "user"

\* _entry: auto err = dt->init(argument1, argument2); if (err) return;
EntryInit ==
    /\ pc = "built"
    /\ \E st \in {init(Table, Len(decls), argument1, argument2)} :
          /\ hdr' = st.hdr
          /\ kernel_base' = st.kernel_base
          /\ slots' = st.slots
          /\ ldr' = st.ldr
          /\ refs' = st.refs
          /\ calls' = st.calls
          /\ err' = IF st.crashed THEN -1 ELSE st.err
          /\ pc' = IF st.crashed THEN "crashed" ELSE entry_after_init(st.err)
    /\ shim' = Append(shim, ShimCall("init"))
    /\ UNCHANGED <<mode, features, missing, argument1, argument2, decls, diag>>
    /\ UNCHANGED lib_vars

\* _entry: entry(argument1, argument2);
EntryBody ==
    /\ pc = "user"
    /\ shim' = Append(shim, ShimCall("entry"))
    /\ pc' = "destroy"
    /\ UNCHANGED <<mode, features, missing, argument1, argument2, decls, diag,
                   hdr, kernel_base, slots, err, ldr, refs, calls>>
    /\ UNCHANGED lib_vars

\* _entry: dt->destroy(argument1, argument2); and the return
EntryDestroy ==
    /\ pc = "destroy"
    /\ \E st \in {destroy(Table, Len(decls), argument1, argument2)} :
          /\ hdr' = st.hdr
          /\ kernel_base' = st.kernel_base
          /\ slots' = st.slots
          /\ ldr' = st.ldr
          /\ refs' = st.refs
          /\ calls' = st.calls
          /\ pc' = IF st.crashed THEN "crashed" ELSE "done"
    /\ shim' = Append(shim, ShimCall("destroy"))
    /\ UNCHANGED <<mode, features, missing, argument1, argument2, decls, diag, err>>
    /\ UNCHANGED lib_vars

Next ==
    \/ IncludePlatform
    \/ \E d \in ModuleDecls(mode) : IMPORT_MODULE(d)
    \/ \E d \in SymbolDecls(mode) : IMPORT_SYMBOL(d)
    \/ IMPORT_END
    \/ EntryInit
    \/ EntryBody
    \/ EntryDestroy

Spec == Init /\ [][Next]_vars

----------------------------------------------------------------------------
(* One _TX(s) site: the static xor_string and the decode_xor calls on it.  *)

\* the payload of a specification that follows a library routine on its own
PayloadIdle ==
    /\ mode = "user_mode"
    /\ features = {}
    /\ missing = NoImport
    /\ argument1 = 1
    /\ argument2 = 2
    /\ decls = <<>>
    /\ diag = {}
    /\ pc = "include"
    /\ hdr = <<>>
    /\ kernel_base = 0
    /\ slots = <<>>
    /\ err = -1
    /\ ldr = <<"exe", "ntdll", "kernel32">>
    /\ refs = [m \in HostModules |-> IF m \in {"exe", "ntdll", "kernel32"} THEN 1 ELSE 0]
    /\ shim = <<>>
    /\ calls = <<>>

\* static xor_string<CharT, N> _xstr(s, SCFW_XOR_KEY(__LINE__, CharT));
InitXor ==
    /\ PayloadIdle /\ HashIdle /\ PicIdle /\ ExportIdle /\ ExtIdle
    /\ literal \in [chars : Literals, CharT : {"char", "wchar_t"}, line : 1..MaxLine]
    /\ xstr = xor_string(Append(literal.chars, 0),
                         SCFW_XOR_KEY(literal.line, literal.CharT), literal.CharT)
    /\ xpc = "static"
    /\ xi = 0
    /\ xlog = <<>>

XorReturn == [ptr |-> decode_xor_result(literal.CharT), key |-> xstr.key',
              len |-> xstr.len', data |-> xstr.data']

\* decode_xor up to the test of the key: key_type key = p[0]; if (key != 0)
DecodeCall ==
    /\ xpc \in {"static", "returned"}
    /\ Len(xlog) < MaxDecodes
    /\ IF xstr.key # 0
       THEN /\ xpc' = "loop"
            /\ xi' = 0
            /\ UNCHANGED <<xstr, xlog>>
       ELSE /\ UNCHANGED <<xstr, xi>>
            /\ xpc' = "returned"
            /\ xlog' = Append(xlog, XorReturn)
    /\ UNCHANGED <<literal, payload_vars, hash_vars, pic_vars, export_vars,
                   ext_vars>>

\* one turn of for (key_type i = 0; i <= len; i++) str[i] ^= key;
DecodeLoop ==
    /\ xpc = "loop"
    /\ xi <= xstr.len
    /\ xstr' = [xstr EXCEPT !.data[xi + 1] = BitXor(@, xstr.key)]
    /\ xi' = (xi + 1) % KeyRange(literal.CharT)
    /\ UNCHANGED <<literal, xpc, xlog, payload_vars, hash_vars, pic_vars, export_vars,
                   ext_vars>>

\* Variant of the loop's exit that leaves the key in place.
DecodeReturn_keeps_key ==
    /\ xpc = "loop"
    /\ ~(xi <= xstr.len)
    /\ UNCHANGED xstr
    /\ xpc' = "returned"
    /\ xlog' = Append(xlog, XorReturn)
    /\ UNCHANGED <<literal, xi, payload_vars, hash_vars, pic_vars, export_vars,
                   ext_vars>>

\* the loop's exit: p[0] = 0; return reinterpret_cast<CharT*>(p + 2);
DecodeReturn ==
    /\ xpc = "loop"
    /\ ~(xi <= xstr.len)
    /\ xstr' = [xstr EXCEPT !.key = 0]
    /\ xpc' = "returned"
    /\ xlog' = Append(xlog, XorReturn)
    /\ UNCHANGED <<literal, xi, payload_vars, hash_vars, pic_vars, export_vars,
                   ext_vars>>

NextXor ==
    \/ DecodeCall
    \/ DecodeLoop
    \/ DecodeReturn

SpecXor == InitXor /\ [][NextXor]_vars

----------------------------------------------------------------------------
(* fnv1a_hash on its own, applied to a string and to its case variants.    *)

MaxHashLen == 3

\* '0', 'A', 'Z', '[', 'a', 'z', '{'
HashAlphabet == {48, 65, 90, 91, 97, 122, 123}
HashStrings == UNION {[1..n -> HashAlphabet] : n \in 0..MaxHashLen}

\* the argument with its letters in upper case, in lower case, or as it is
CaseVariant(v, chars) ==
    [i \in 1..Len(chars) |->
        IF v = "upper" /\ chars[i] >= 97 /\ chars[i] <= 122 THEN chars[i] - 32
        ELSE IF v = "lower" /\ chars[i] >= 65 /\ chars[i] <= 90 THEN chars[i] + 32
        ELSE chars[i]]

InitHash ==
    /\ PayloadIdle /\ XorIdle /\ PicIdle /\ ExportIdle /\ ExtIdle
    /\ hstr \in [chars : HashStrings, CharT : {"char", "wchar_t"}, line : {0}]
    /\ hout = <<>>

\* fnv1a_hash(string) for one variant of the string
Hash(v) ==
    /\ v \notin DOMAIN hout
    /\ hout' = hout @@ (v :> fnv1a_hash(CaseVariant(v, hstr.chars)))
    /\ UNCHANGED <<hstr, payload_vars, xor_vars, pic_vars, export_vars,
                   ext_vars>>

NextHash == \E v \in {"s", "upper", "lower"} : Hash(v)

SpecHash == InitHash /\ [][NextHash]_vars

----------------------------------------------------------------------------
(* Position-independent addressing: pic.h. A uintptr_t of the 32-bit       *)
(* target is a pair <<high 16 bits, low 16 bits>>.                         *)

MaxPicCalls == 2

\* a + b and a - b in uintptr_t, modulo 2^32
Add32(a, b) ==
    << (a[1] + b[1] + ((a[2] + b[2]) \div 65536)) % 65536, (a[2] + b[2]) % 65536 >>
Sub32(a, b) ==
    << (a[1] + 65536 - b[1] - (IF a[2] < b[2] THEN 1 ELSE 0)) % 65536,
       (a[2] + 65536 - b[2]) % 65536 >>

\* the address the image is linked at, and &_pc: 0x00400000 and 0x00401000
LinkBase == <<64, 0>>
AddrOfPc == <<64, 4096>>

\* _pc(): the runtime address of _pc in an image loaded at base
_pc(base) == Add32(base, Sub32(AddrOfPc, LinkBase))

\* Variant of _pic that returns the compile-time address.
_pic_unadjusted(base, addr) == addr

\* _pic(addr), in an image loaded at base
_pic(base, addr) == Add32(Sub32(_pc(base), AddrOfPc), addr)

\* where the host put the image: at, below and above the link address
InitPic ==
    /\ PayloadIdle /\ XorIdle /\ HashIdle /\ ExportIdle /\ ExtIdle
    /\ target \in {"x86", "x64"}
    /\ load_base \in {LinkBase, <<1, 0>>, <<64, 32768>>, <<32766, 0>>, <<65535, 0>>}
    /\ pic_log = <<>>

\* _(p) for the compile-time address p of a datum of the image
PicCall(p) ==
    /\ Len(pic_log) < MaxPicCalls
    /\ pic_log' = Append(pic_log,
                         [p |-> p, pc |-> _pc(load_base),
                          ret |-> IF target = "x86" THEN _pic(load_base, p) ELSE p])
    /\ UNCHANGED <<target, load_base, payload_vars, xor_vars, hash_vars, export_vars,
                   ext_vars>>

NextPic == \E p \in {LinkBase, AddrOfPc, <<64, 8192>>, <<64, 65535>>} : PicCall(p)

SpecPic == InitPic /\ [][NextPic]_vars

----------------------------------------------------------------------------
(* windows::lookup_symbol on an arbitrary well-formed export directory,    *)
(* in a build without SCFW_ENABLE_FIND_MODULE_FORWARDER.                   *)

MaxExports == 3

\* export directories with n names: any names, any name-to-function map
ExportDirectories(n) ==
    { [Names |-> names, Ordinals |-> ordinals,
       Functions |-> [i \in 1..n |-> 256 + (16 * i)]] :
        names \in [1..n -> {S_Sleep, S_sleep, S_FreeLibrary}],
        ordinals \in [1..n -> 0..(n - 1)] }

InitExport ==
    /\ PayloadIdle /\ XorIdle /\ HashIdle /\ PicIdle /\ ExtIdle
    /\ image \in [base : {Base("kernel32"), Base("user32")},
                  dir : UNION {ExportDirectories(n) : n \in 0..MaxExports}]
    /\ lookups = <<>>

\* lookup_symbol<F>(module, name) and lookup_symbol<F>(module, hash)
LookupSymbol(comparator) ==
    /\ lookups = <<>>
    /\ lookups' = <<[comparator |-> comparator,
                     ret |-> lookup_symbol_scan(image.base, image.dir,
                                                Len(image.dir.Names), comparator)]>>
    /\ UNCHANGED <<image, payload_vars, xor_vars, hash_vars, pic_vars,
                   ext_vars>>

NextExport ==
    \/ \E name \in {S_Sleep, S_sleep, S_VirtualFree} : LookupSymbol(ByName(name))
    \/ \E name \in {S_Sleep, S_VirtualFree} : LookupSymbol(ByHash(fnv1a_hash(name)))

SpecExport == InitExport /\ [][NextExport]_vars

----------------------------------------------------------------------------
(* windows::lookup_symbol of the build with                                *)
(* SCFW_ENABLE_FIND_MODULE_FORWARDER: one action per lookup_symbol call,   *)
(* the recursive call of the forwarder branch included.                    *)

\* sizeof(DllName)
DllNameSize == 64

\* "DLL.Func" as the export directory stores it
ForwardStr(dll, func) == dll \o <<46>> \o func

\* where the images of this host keep their export directory and, inside
\* it, the forwarder string of their first export
ForwardImage == [ExportDirRVA |-> 1024, ExportDirSize |-> 128, ForwardStrRVA |-> 1056]

\* the export directory of m when its first export is forwarded to fstr
\* (<<>>: the first export is code)
ForwardDirectory(m, fstr) ==
    LET first == IF fstr = <<>> THEN 528 ELSE ForwardImage.ForwardStrRVA
    IN  CASE m = "user32" ->
                [Names |-> <<S_DefWindowProcA, S_MessageBoxA>>,
                 Ordinals |-> <<0, 1>>, Functions |-> <<first, 512>>]
          [] m = "ntdll" ->
                [Names |-> <<S_NtdllDefWindowProc_A, S_Sleep>>,
                 Ordinals |-> <<0, 1>>, Functions |-> <<first, 784>>]
          [] m = "long" ->
                [Names |-> <<S_Sleep>>, Ordinals |-> <<0>>, Functions |-> <<800>>]
          [] OTHER -> [Names |-> <<>>, Ordinals |-> <<>>, Functions |-> <<>>]

\* while (*Dot && *Dot != '.') Dot++;  the value is Dot - ForwardStr
RECURSIVE DotOffset(_, _)
DotOffset(str, n) ==
    IF CharAt(str, n + 1) # 0 /\ CharAt(str, n + 1) # 46 THEN DotOffset(str, n + 1) ELSE n

\* the indices of dest that strcpy(dest, src) writes, the terminator included
strcpy_writes(src) == 0..Len(src)

\* the indices of DllName written by strcpy and the five assignments
DllName_writes(str) ==
    strcpy_writes(str) \cup {DotOffset(str, 0) + k : k \in 0..4}

\* DllName as a string once ".dll" is in place
DllName(str) == SubSeq(str, 1, DotOffset(str, 0)) \o <<46, 100, 108, 108>>

\* LPCSTR FuncName = Dot + 1
FuncName(str) == SubSeq(str, DotOffset(str, 0) + 2, Len(str))

\* one lookup_symbol<F>(module, name | hash): what it returns, or the
\* recursive call it ends in
forward_lookup(host, module, comparator) ==
    LET dir == ForwardDirectory(ImageAt(module), host.fwd[ImageAt(module)])
        found == lookup_symbol_scan(module, dir, Len(dir.Names), comparator)
        FunctionRVA == found - module
        str == host.fwd[ImageAt(module)]
        TargetModule == usermode_find_module_impl(host.list, ByName(DllName(str)))
        Return(v) == [kind |-> "return", ret |-> v, writes |-> {}]
    IN  IF found = 0 THEN Return(0)
        ELSE IF ~(FunctionRVA >= ForwardImage.ExportDirRVA
                  /\ FunctionRVA < ForwardImage.ExportDirRVA + ForwardImage.ExportDirSize)
        THEN Return(found)
        ELSE IF CharAt(str, DotOffset(str, 0) + 1) = 0 THEN Return(0)
        ELSE IF DotOffset(str, 0) + 5 > DllNameSize THEN Return(0)
        ELSE IF CharAt(FuncName(str), 1) = 35
        THEN [kind |-> "return", ret |-> 0, writes |-> DllName_writes(str)]
        ELSE IF TargetModule = 0
        THEN [kind |-> "return", ret |-> 0, writes |-> DllName_writes(str)]
        ELSE [kind |-> "recurse", module |-> TargetModule,
              comparator |-> ByName(FuncName(str)), writes |-> DllName_writes(str)]

ForwardStrings ==
    { <<>>, S_NTDLL, ForwardStr(S_NTDLL, S_NtdllDefWindowProc_A),
      ForwardStr(S_ntdll_dll, S_Sleep), ForwardStr(S_NTDLL, <<35, 49, 50>>),
      ForwardStr(<<78, 79, 80, 69>>, S_Sleep),
      ForwardStr(S_USER32, S_DefWindowProcA), ForwardStr(S_USER32, S_MessageBoxA),
      ForwardStr(S_NTDLL, [i \in 1..60 |-> 120]),
      ForwardStr([i \in 1..60 |-> 97], S_Sleep),
      ForwardStr([i \in 1..59 |-> 97], S_Sleep) }

InitForward ==
    /\ PayloadIdle /\ XorIdle /\ HashIdle /\ PicIdle /\ ExportIdle
    /\ FindIdle /\ KqIdle /\ FoldIdle /\ BodyIdle
    /\ fhost \in [list : {<<"exe", "user32">>, <<"exe", "ntdll", "user32">>,
                          <<"exe", "ntdll", "user32", "long">>},
                  fwd : {[m \in {"exe", "ntdll", "user32", "long"} |->
                             IF m = "user32" THEN u ELSE IF m = "ntdll" THEN n ELSE <<>>] :
                         u \in ForwardStrings,
                         n \in {<<>>, ForwardStr(S_USER32, S_DefWindowProcA),
                                ForwardStr(S_NTDLL, S_Sleep)}},
                  request : {ByName(S_DefWindowProcA), ByHash(fnv1a_hash(S_DefWindowProcA)),
                             ByName(S_MessageBoxA), ByName(S_Sleep)}]
    /\ chase = [pc |-> "call", module |-> Base("user32"), comparator |-> fhost.request,
                ret |-> 0, writes |-> {}, depth |-> 0]

\* the state after the call in progress went the way r says
AfterLookup(r) ==
    IF r.kind = "return"
    THEN [chase EXCEPT !.pc = "returned", !.ret = r.ret, !.writes = r.writes]
    ELSE [chase EXCEPT !.module = r.module, !.comparator = r.comparator,
                       !.writes = r.writes, !.depth = (@ + 1) % 2]

\* the call returns nullptr or an address
LookupReturn ==
    /\ chase.pc = "call"
    /\ \E r \in {forward_lookup(fhost, chase.module, chase.comparator)} :
          /\ r.kind = "return"
          /\ r.writes \subseteq 0..(DllNameSize - 1)
          /\ chase' = AfterLookup(r)
    /\ UNCHANGED <<fhost, payload_vars, xor_vars, hash_vars, pic_vars, export_vars,
                   find_vars, kq_vars, fold_vars, body_vars>>

\* return lookup_symbol<F>(TargetModule, FuncName);
LookupForward ==
    /\ chase.pc = "call"
    /\ \E r \in {forward_lookup(fhost, chase.module, chase.comparator)} :
          /\ r.kind = "recurse"
          /\ r.writes \subseteq 0..(DllNameSize - 1)
          /\ chase' = AfterLookup(r)
    /\ UNCHANGED <<fhost, payload_vars, xor_vars, hash_vars, pic_vars, export_vars,
                   find_vars, kq_vars, fold_vars, body_vars>>

\* strcpy wrote past the end of DllName: the call may go on as if nothing
\* happened, or fault
LookupSmash ==
    /\ chase.pc = "call"
    /\ \E r \in {forward_lookup(fhost, chase.module, chase.comparator)} :
          /\ ~(r.writes \subseteq 0..(DllNameSize - 1))
          /\ \/ chase' = AfterLookup(r)
             \/ chase' = [chase EXCEPT !.pc = "crashed", !.writes = r.writes]
    /\ UNCHANGED <<fhost, payload_vars, xor_vars, hash_vars, pic_vars, export_vars,
                   find_vars, kq_vars, fold_vars, body_vars>>

NextForward == LookupReturn \/ LookupForward \/ LookupSmash

SpecForward == InitForward /\ [][NextForward]_vars

\* the calls are made one after the other without pause
SpecForwardFair == SpecForward /\ WF_vars(NextForward)

----------------------------------------------------------------------------
(* mode_traits<user_mode>::find_module on an arbitrary loader list.        *)

MaxLoader == 3

\* lists of up to n distinct images
LoaderLists(n) ==
    UNION {{l \in [1..k -> UserImages] : \A i, j \in 1..k : i # j => l[i] # l[j]} :
           k \in 0..n}

\* how many Flink hops from the list head the fast path of the request
\* takes; 0 when the request goes to the general walk
FastPathHops(c) ==
    IF SCFW_ENABLE_FULL_MODULE_SEARCH THEN 0
    ELSE IF (IF c.by = "strcmp" THEN _stricmp(c.key, S_ntdll_dll) = 0
             ELSE c.key = HASH_ntdll_dll) THEN 2
    ELSE IF (IF c.by = "strcmp" THEN _stricmp(c.key, S_kernel32_dll) = 0
             ELSE c.key = HASH_kernel32_dll) THEN 3
    ELSE 0

\* what find_module can return: on a list shorter than the hops of the fast
\* path the Flink chain is back at the list head, which is no
\* LDR_DATA_TABLE_ENTRY, and DllBase is whatever PEB_LDR_DATA holds there
find_module_results(list, c) ==
    IF FastPathHops(c) > Len(list) THEN {0, Base("exe") + 16}
    ELSE {usermode_traits_find_module(list, c)}

InitFind ==
    /\ PayloadIdle /\ XorIdle /\ HashIdle /\ PicIdle /\ ExportIdle
    /\ ForwardIdle /\ KqIdle /\ FoldIdle /\ BodyIdle
    /\ floader \in LoaderLists(MaxLoader)
    /\ finds = <<>>

\* mode_traits<user_mode>::find_module(name) and find_module(hash)
FindModule(c) ==
    /\ finds = <<>>
    /\ \E ret \in find_module_results(floader, c) :
          finds' = <<[comparator |-> c, ret |-> ret]>>
    /\ UNCHANGED <<floader, payload_vars, xor_vars, hash_vars, pic_vars, export_vars,
                   fwd_vars, kq_vars, fold_vars, body_vars>>

NextFind ==
    \/ \E name \in {S_ntdll_dll, S_kernel32_dll, W_KERNEL32_DLL, S_user32_dll, S_nope_dll} :
          FindModule(ByName(name))
    \/ \E name \in {S_ntdll_dll, S_kernel32_dll, S_user32_dll, S_nope_dll} :
          FindModule(ByHash(fnv1a_hash(name)))

SpecFind == InitFind /\ [][NextFind]_vars

----------------------------------------------------------------------------
(* kernelmode::find_module_impl statement by statement, behind             *)
(* mode_traits<kernel_mode>::find_module, against a kernel that answers    *)
(* the queries and the pool requests as ksys says.                         *)

MaxQueries == 3

\* the statuses of the successive ZwQuerySystemInformation calls: length
\* mismatches, then success or another failure status
QueryScripts(n) ==
    {[i \in 1..k |-> IF i < k THEN "STATUS_INFO_LENGTH_MISMATCH" ELSE last] :
        k \in 1..n, last \in {"STATUS_SUCCESS", "STATUS_NO_MEMORY"}}

\* pX = lookup_symbol<decltype(&X)>(kernel_base, SCFW__SYMBOL("X"))
kernel_routine(sys, k, name) ==
    lookup_symbol_impl(k.kernel_base, sys.missing, SCFW__SYMBOL(name))

\* the locals of find_module_impl at its first statement
find_module_locals(k, c) ==
    [k EXCEPT !.pc = "loop", !.comparator = c, !.Status = "", !.Result = 0,
              !.Buffer = 0, !.BufferLength = 0, !.RequiredLength = 0]

PoolCall(k, op, buffer) == [k EXCEPT !.pool = Append(@, [op |-> op, buffer |-> buffer])]
KqCrashed(k) == [k EXCEPT !.pc = "crashed"]

\* Buffer = pExAllocatePool(NonPagedPool, RequiredLength): the buffers are
\* numbered in the order they are asked for; 0 is nullptr
ExAllocatePool(sys, k) ==
    LET n == Cardinality({i \in 1..Len(k.pool) : k.pool[i].op = "ExAllocatePool"}) + 1
    IN  IF n \in sys.alloc_fails THEN 0 ELSE n

\* Variant of the loop body that allocates without releasing the buffer of
\* the previous round.
find_module_iteration_keeps_buffer(sys, k) ==
    LET n == k.queries + 1
        Buffer == IF k.RequiredLength # 0 THEN ExAllocatePool(sys, k) ELSE k.Buffer
        k2 == IF k.RequiredLength # 0 THEN PoolCall(k, "ExAllocatePool", Buffer) ELSE k
    IN  IF kernel_routine(sys, k, S_ZwQuerySystemInformation) = 0
           \/ (k.RequiredLength # 0 /\ kernel_routine(sys, k, S_ExAllocatePool) = 0)
        THEN KqCrashed(k)
        ELSE [k2 EXCEPT !.Buffer = Buffer,
                        !.BufferLength = k.RequiredLength,
                        !.Status = sys.script[n],
                        !.RequiredLength = n,
                        !.queries = n,
                        !.filled = IF sys.script[n] = "STATUS_SUCCESS" THEN Buffer ELSE @,
                        !.pc = IF sys.script[n] = "STATUS_INFO_LENGTH_MISMATCH"
                               THEN "loop" ELSE "scan"]

\* one round of the do-while: release and allocate when a length is known,
\* then query
find_module_iteration(sys, k) ==
    LET n == k.queries + 1
        frees == k.RequiredLength # 0 /\ k.Buffer # 0
        k1 == IF frees THEN PoolCall(k, "ExFreePool", k.Buffer) ELSE k
        Buffer == IF k.RequiredLength # 0 THEN ExAllocatePool(sys, k1) ELSE k.Buffer
        k2 == IF k.RequiredLength # 0 THEN PoolCall(k1, "ExAllocatePool", Buffer) ELSE k1
    IN  IF frees /\ kernel_routine(sys, k, S_ExFreePool) = 0 THEN KqCrashed(k)
        ELSE IF k.RequiredLength # 0 /\ kernel_routine(sys, k, S_ExAllocatePool) = 0
        THEN KqCrashed(k1)
        ELSE IF kernel_routine(sys, k, S_ZwQuerySystemInformation) = 0 THEN KqCrashed(k2)
        ELSE [k2 EXCEPT !.Buffer = Buffer,
                        !.BufferLength = k.RequiredLength,
                        !.Status = sys.script[n],
                        !.RequiredLength = n,
                        !.queries = n,
                        !.filled = IF sys.script[n] = "STATUS_SUCCESS" THEN Buffer ELSE @,
                        !.pc = IF sys.script[n] = "STATUS_INFO_LENGTH_MISMATCH"
                               THEN "loop" ELSE "scan"]

\* the scan of the module array, pExFreePool(Buffer) and the return. A null
\* Buffer faults at Modules->NumberOfModules; a buffer the kernel did not
\* fill holds anything: the scan may fault, find nothing or find garbage;
\* ExFreePool is declared _Pre_notnull_.
find_module_finish(sys, k) ==
    LET scanned ==
            IF k.Buffer = 0 THEN {}
            ELSE IF k.filled = k.Buffer
            THEN {[k EXCEPT !.Result = module_array_scan(sys.modules, 1, k.comparator)]}
            ELSE {[k EXCEPT !.Result = r, !.bad_read = TRUE] : r \in {0, 43690}}
        freed == {[PoolCall(s, "ExFreePool", s.Buffer) EXCEPT !.pc = "returned",
                                                           !.ret = s.Result] :
                  s \in scanned}
    IN  IF k.Buffer = 0 \/ kernel_routine(sys, k, S_ExFreePool) = 0
        THEN {[KqCrashed(k) EXCEPT !.bad_read = (k.Buffer = 0 \/ k.filled # k.Buffer)]}
        ELSE freed \cup (IF k.filled = k.Buffer THEN {}
                         ELSE {[KqCrashed(k) EXCEPT !.bad_read = TRUE]})

InitKq ==
    /\ PayloadIdle /\ XorIdle /\ HashIdle /\ PicIdle /\ ExportIdle
    /\ ForwardIdle /\ FindIdle /\ FoldIdle /\ BodyIdle
    /\ ksys \in [argument1 : {Base("ntoskrnl")},
                 modules : {<<>>, <<"ntoskrnl">>, <<"ntoskrnl", "ksecdd">>,
                            <<"ksecdd", "ntoskrnl">>},
                 script : QueryScripts(MaxQueries),
                 alloc_fails : SUBSET (1..(MaxQueries - 1)),
                 missing : {NoImport, S_ExAllocatePool, S_ExFreePool,
                            S_ZwQuerySystemInformation}]
    /\ kq = [pc |-> "init", kernel_base |-> 0, comparator |-> ByName(<<>>), Status |-> "",
             Result |-> 0, Buffer |-> 0, BufferLength |-> 0, RequiredLength |-> 0,
             queries |-> 0, filled |-> 0, pool |-> <<>>, bad_read |-> FALSE, ret |-> 0]

KqUnchanged ==
    UNCHANGED <<ksys, payload_vars, xor_vars, hash_vars, pic_vars, export_vars,
                fwd_vars, find_vars, fold_vars,
                body_vars>>

\* dispatch_table_impl<0, kernel_mode>::init: this->mode_.kernel_base = kernel_base
KqBaseInit ==
    /\ kq.pc = "init"
    /\ kq' = [kq EXCEPT !.pc = "idle", !.kernel_base = ksys.argument1]
    /\ KqUnchanged

\* mode_traits<kernel_mode>::find_module(name | hash), up to the first
\* statement of find_module_impl
KqFindModule(c) ==
    /\ kq.pc = "idle"
    /\ kq' = IF (IF c.by = "strcmp" THEN _stricmp(c.key, S_ntoskrnl_exe) = 0
                 ELSE c.key = HASH_ntoskrnl_exe)
             THEN [kq EXCEPT !.pc = "returned", !.comparator = c, !.ret = kq.kernel_base]
             ELSE find_module_locals(kq, c)
    /\ KqUnchanged

KqIteration ==
    /\ kq.pc = "loop"
    /\ kq' = find_module_iteration(ksys, kq)
    /\ KqUnchanged

KqFinish ==
    /\ kq.pc = "scan"
    /\ kq' \in find_module_finish(ksys, kq)
    /\ KqUnchanged

NextKq ==
    \/ KqBaseInit
    \/ \E name \in {S_ntoskrnl_exe, S_NTOSKRNL_EXE, S_ksecdd_sys, S_KSECDD_SYS,
                    S_nope_dll} :
          KqFindModule(ByName(name))
    \/ \E name \in {S_ntoskrnl_exe, S_ksecdd_sys} : KqFindModule(ByHash(fnv1a_hash(name)))
    \/ KqIteration
    \/ KqFinish

SpecKq == InitKq /\ [][NextKq]_vars

----------------------------------------------------------------------------
(* The fold of the hasher next to the fold of the comparators, on pairs of *)
(* ASCII strings.                                                          *)

MaxFoldLen == 2

\* 'A', '[', 'a', 'z', '{'
FoldAlphabet == {65, 91, 97, 122, 123}
FoldStrings == UNION {[1..n -> FoldAlphabet] : n \in 0..MaxFoldLen}

\* the bytes fnv1a_hash feeds into hash ^= byte, in order
fnv1a_folded(string) == [i \in 1..Len(string) |-> fnv1a_fold(string[i] % 256)]

InitFold ==
    /\ PayloadIdle /\ XorIdle /\ HashIdle /\ PicIdle /\ ExportIdle
    /\ ForwardIdle /\ FindIdle /\ KqIdle /\ BodyIdle
    /\ fold_in \in [a : FoldStrings, b : FoldStrings]
    /\ fold_out = <<>>

FoldUnchanged ==
    UNCHANGED <<fold_in, payload_vars, xor_vars, hash_vars, pic_vars, export_vars,
                fwd_vars, find_vars, kq_vars,
                body_vars>>

\* one of the comparators on the pair
FoldCompare(f) ==
    /\ f \notin DOMAIN fold_out
    /\ fold_out' = fold_out @@
           (f :> CASE f = "_stricmp" -> _stricmp(fold_in.a, fold_in.b)
                   [] f = "_wcsicmp" -> _wcsicmp(fold_in.a, fold_in.b)
                   [] f = "_wcsicmpa" -> _wcsicmpa(fold_in.a, fold_in.b))
    /\ FoldUnchanged

\* fnv1a_hash on both strings of the pair: the folded bytes and the hashes
FoldHash ==
    /\ "fnv1a_hash" \notin DOMAIN fold_out
    /\ fold_out' = fold_out @@
           ("fnv1a_hash" :> [a |-> fnv1a_folded(fold_in.a), b |-> fnv1a_folded(fold_in.b),
                             hash_a |-> fnv1a_hash(fold_in.a),
                             hash_b |-> fnv1a_hash(fold_in.b)])
    /\ FoldUnchanged

NextFold ==
    \/ \E f \in {"_stricmp", "_wcsicmp", "_wcsicmpa"} : FoldCompare(f)
    \/ FoldHash

SpecFold == InitFold /\ [][NextFold]_vars

----------------------------------------------------------------------------
(* The user body: the proxies of SCFW_CALLABLE_IMPL and SCFW_VALUE_IMPL,   *)
(* GLOBAL and _TX, run between init and destroy of a built image.          *)

MaxBodyDecls == 2
MaxBodyOps == 2

\* IMPORT_MODULE followed by IMPORT_SYMBOLs, as many as n entries, that
\* compile and link
BodyDeclLists(m, fs, n) ==
    {ds \in UNION {[1..k -> ModuleDecls(m) \cup SymbolDecls(m)] : k \in 2..n} :
        /\ ds[1].kind = "module"
        /\ \A k \in 2..Len(ds) : ds[k].kind = "symbol"
        /\ module_static_assert(ds[1].name, ds[1].flags) = {}
        /\ \A k \in 2..Len(ds) :
              /\ symbol_static_assert(ds[k].name, ds[k].flags) = {}
              /\ lookup_flags_ill_formed(SubSeq(ds, 1, k - 1), k - 1) = {}
        /\ unresolved_externals(ds, m, fs) = {}}

\* Variant of get() that names the slot of dispatch_table_impl<Id>.
value_get_parent(n) == n - 1

\* value_Name::get(): &dispatch_table_impl<Id + 1>->slot_Name_, as the
\* ordinal of the entry whose slot it is
value_get(n) == n

\* callable_Name::get(): dispatch_table_impl<Id + 1>->slot_Name_
callable_get(table, n) == table[n]

\* proxy_value: operator value_type&, operator bool, operator&, operator=
proxy_value_read(table, n) == table[value_get(n)]
proxy_value_bool(table, n) == table[value_get(n)] # 0
proxy_value_addressof(n) == <<"slot_", value_get(n)>>
proxy_value_assign(table, n, value) == [table EXCEPT ![value_get(n)] = value]

BodyOp(op, n, value, old) == [op |-> op, n |-> n, value |-> value, old |-> old]

InitUser ==
    /\ XorIdle /\ HashIdle /\ PicIdle /\ ExportIdle
    /\ ForwardIdle /\ FindIdle /\ KqIdle /\ FoldIdle
    /\ mode \in {"user_mode", "kernel_mode"}
    /\ features \in {fs \in FeatureSets :
                        mode = "kernel_mode" => kernel_mode_static_assert(fs) = {}}
    /\ missing = NoImport
    /\ argument1 = IF mode = "kernel_mode" THEN Base("ntoskrnl") ELSE 1
    /\ argument2 = 2
    /\ decls \in BodyDeclLists(mode, features, MaxBodyDecls)
    /\ diag = {}
    /\ pc = "built"
    /\ hdr = [f \in HeaderFields(features) |-> 0]
    /\ kernel_base = 0
    /\ slots = [n \in 1..Len(decls) |-> 0]
    /\ err = -1
    /\ ldr = IF mode = "user_mode" THEN <<"exe", "ntdll", "kernel32">> ELSE <<>>
    /\ refs = [m \in HostModules |->
                 IF mode = "user_mode" /\ m \in {"exe", "ntdll", "kernel32"}
                 THEN 1 ELSE 0]
    /\ shim = <<>>
    /\ calls = <<>>
    /\ body \in [values : SUBSET {n \in 1..Len(decls) : decls[n].kind = "symbol"},
                 global : {0}, xkey : {165}, ops : {0},
                 last : {BodyOp("", 0, 0, 0)}]

BodyReady == pc = "user" /\ body.ops < MaxBodyOps
BodyDone(op) == [body EXCEPT !.ops = @ + 1, !.last = op]
TableUnchanged ==
    UNCHANGED <<mode, features, missing, argument1, argument2, decls, diag, pc,
                hdr, kernel_base, err, ldr, refs, shim, calls>>
BodyUnchanged ==
    UNCHANGED <<xor_vars, hash_vars, pic_vars, export_vars, fwd_vars, find_vars,
                kq_vars, fold_vars>>

\* sc::Name(args...) on a callable import
ProxyCall(n) ==
    /\ BodyReady
    /\ n \in DOMAIN decls /\ decls[n].kind = "symbol" /\ n \notin body.values
    /\ body' = BodyDone(BodyOp("call", n, callable_get(slots, n), slots[n]))
    /\ UNCHANGED slots /\ TableUnchanged /\ BodyUnchanged

\* value = sc::Name on a value import
ValueRead(n) ==
    /\ BodyReady
    /\ n \in body.values
    /\ body' = BodyDone(BodyOp("read", n, proxy_value_read(slots, n), slots[n]))
    /\ UNCHANGED slots /\ TableUnchanged /\ BodyUnchanged

\* if (sc::Name) on a value import
ValueBool(n) ==
    /\ BodyReady
    /\ n \in body.values
    /\ body' = BodyDone(BodyOp("bool", n, proxy_value_bool(slots, n), slots[n]))
    /\ UNCHANGED slots /\ TableUnchanged /\ BodyUnchanged

\* &sc::Name on a value import
ValueAddressOf(n) ==
    /\ BodyReady
    /\ n \in body.values
    /\ body' = BodyDone(BodyOp("addressof", n, proxy_value_addressof(n), slots[n]))
    /\ UNCHANGED slots /\ TableUnchanged /\ BodyUnchanged

\* sc::Name = value on a value import
ValueAssign(n, value) ==
    /\ BodyReady
    /\ n \in body.values
    /\ slots' = proxy_value_assign(slots, n, value)
    /\ body' = BodyDone(BodyOp("assign", n, value, slots[n]))
    /\ TableUnchanged /\ BodyUnchanged

\* sc::Name = value on a GLOBAL: the static Name_, outside the table
GlobalAssign(value) ==
    /\ BodyReady
    /\ body' = [BodyDone(BodyOp("global", 0, value, body.global)) EXCEPT !.global = value]
    /\ UNCHANGED slots /\ TableUnchanged /\ BodyUnchanged

\* _TX(s): decode_xor on the record of the literal, which zeroes its key
DecodeString ==
    /\ BodyReady
    /\ body' = [BodyDone(BodyOp("_TX", 0, 0, body.xkey)) EXCEPT !.xkey = 0]
    /\ UNCHANGED slots /\ TableUnchanged /\ BodyUnchanged

NextUser ==
    \/ EntryInit
    \/ \E n \in 1..MaxBodyDecls : ProxyCall(n)
    \/ \E n \in 1..MaxBodyDecls : ValueRead(n)
    \/ \E n \in 1..MaxBodyDecls : ValueBool(n)
    \/ \E n \in 1..MaxBodyDecls : ValueAddressOf(n)
    \/ \E n \in 1..MaxBodyDecls, value \in {0, 43981} : ValueAssign(n, value)
    \/ \E value \in {1, 2} : GlobalAssign(value)
    \/ DecodeString
    \/ EntryBody
    \/ EntryDestroy

SpecUser == InitUser /\ [][NextUser]_vars

----------------------------------------------------------------------------
(* Vocabulary of the properties.                                           *)

ShimOps == [i \in 1..Len(shim) |-> shim[i].op]
Entries == 1..Len(decls)
ModuleEntries == {n \in Entries : decls[n].kind = "module"}
SymbolEntries == {n \in Entries : decls[n].kind = "symbol"}
CallsWhere(P(_)) == {i \in 1..Len(calls) : P(calls[i])}

\* dt->init returned (err is -1 before that and when init faulted)
InitReturned == err >= 0
\* init reached the own resolution of entry n and came back from it
Attempted(n) == InitReturned /\ (err = 0 \/ n <= err)
\* the payload was translated and linked
ReachedInit == pc \in {"built", "user", "destroy", "done", "crashed"}

\* the nearest module entry declared before entry n, 0 if there is none
ParentModule(n) ==
    IF \E k \in ModuleEntries : k < n
    THEN CHOOSE k \in ModuleEntries : k < n /\ \A j \in ModuleEntries : j < n => j <= k
    ELSE 0

InitialRefs(m) == IF mode = "user_mode" /\ m \in {"exe", "ntdll", "kernel32"} THEN 1 ELSE 0
LoadsOf(m) == Cardinality(CallsWhere(LAMBDA e : e.op = "load_module" /\ e.ret = Base(m)))

----------------------------------------------------------------------------
(* C1: on a run where init returns 0, _entry calls init(arg1, arg2) once,  *)
(* then entry(arg1, arg2) once, then destroy(arg1, arg2) once, and         *)
(* returns; init is never called twice and destroy never runs before the   *)
(* user body has returned.                                                 *)
C1_EntrySequence ==
    /\ \A i \in 1..Len(shim) : shim[i].a1 = argument1 /\ shim[i].a2 = argument2
    /\ Cardinality({i \in 1..Len(shim) : shim[i].op = "init"}) <= 1
    /\ \A i \in 1..Len(shim) :
          shim[i].op = "destroy" => \E j \in 1..(i - 1) : shim[j].op = "entry"
    /\ (err = 0 /\ pc = "user") => ShimOps = <<"init">>
    /\ (err = 0 /\ pc = "destroy") => ShimOps = <<"init", "entry">>
    /\ (err = 0 /\ pc \in {"done", "crashed"}) => ShimOps = <<"init", "entry", "destroy">>

C1_Witness ==
    /\ pc = "done" /\ err = 0
    /\ ShimOps = <<"init", "entry", "destroy">>
    /\ Len(decls) >= 2

(* C2: when init returns non-zero, _entry returns without calling the user *)
(* body or destroy; unload_module is never called on that run and every    *)
(* module loaded by load_module before the failing entry stays loaded.     *)
C2_FailedInitSkipsBodyAndDestroy ==
    (InitReturned /\ err # 0) =>
        /\ pc = "done"
        /\ ShimOps = <<"init">>
        /\ CallsWhere(LAMBDA e : e.op = "unload_module") = {}
        /\ \A m \in UserImages :
              LoadsOf(m) > 0 =>
                  /\ \E k \in 1..Len(ldr) : ldr[k] = m
                  /\ refs[m] = InitialRefs(m) + LoadsOf(m)

C2_Witness ==
    /\ pc = "done" /\ err = 2
    /\ LoadsOf("user32") = 1
    /\ slots[1] = Base("user32")

(* C3: if init returns 0, the module handle of every module entry and the  *)
(* resolved pointer of every symbol entry is non-null.                     *)
C3_SuccessMeansAllSlotsSet ==
    (err = 0 /\ pc = "user") => \A n \in Entries : slots[n] # 0

C3_Witness ==
    /\ err = 0 /\ pc = "user"
    /\ Len(decls) = MaxImports
    /\ ModuleEntries # {} /\ SymbolEntries # {}

(* C4: when the handle or pointer of a declared entry comes back null,     *)
(* init returns that entry's ordinal, the first such entry in declaration  *)
(* order; init returns 0 only when no declared entry failed.               *)
C4_ErrorIsFirstFailingOrdinal ==
    InitReturned =>
        /\ err = 0 => \A n \in Entries : slots[n] # 0
        /\ err # 0 =>
              /\ err \in Entries
              /\ slots[err] = 0
              /\ \A n \in Entries : n < err => slots[n] # 0

C4_Witness ==
    /\ InitReturned /\ err = 2
    /\ Len(decls) = 3
    /\ decls[3] = decls[2]

(* C5: every resolution failure during init is surfaced: init returns 0    *)
(* only if every lookup it performed, the base-level header lookups        *)
(* included, produced a non-null result.                                   *)
C5_EveryFailureSurfaced ==
    err = 0 =>
        CallsWhere(LAMBDA e : e.op \in {"find_module", "load_module",
                                        "lookup_symbol", "lookup_symbol_"}
                              /\ e.ret = 0) = {}

ModuleResolutions(n) ==
    SelectSeq(calls, LAMBDA e : e.id = n /\ e.op \in {"load_module", "find_module"})
SymbolResolutions(n) ==
    SelectSeq(calls, LAMBDA e : e.id = n /\ e.op \in {"lookup_symbol", "lookup_symbol_"})
LoadCalls(n) == CallsWhere(LAMBDA e : e.id = n /\ e.op = "load_module")
UnloadCalls(n) == CallsWhere(LAMBDA e : e.id = n /\ e.op = "unload_module")

(* C6: load_module is called once, during init, for each module entry with *)
(* DYNAMIC_LOAD and for no other; unload_module is called once, during     *)
(* destroy, on the stored handle, for each module entry with DYNAMIC_LOAD  *)
(* and DYNAMIC_UNLOAD and for no other; a handle that find_module          *)
(* produced is never passed to unload_module.                              *)
C6_LoadAndUnloadExactlyOnce ==
    /\ \A i \in 1..Len(calls) :
          calls[i].op \in {"load_module", "unload_module"} => calls[i].id \in ModuleEntries
    /\ (err = 0 /\ pc \in {"user", "destroy", "done"}) =>
          \A n \in ModuleEntries :
              /\ Cardinality(LoadCalls(n)) =
                    IF HasFlag(decls[n].flags, SCFW_FLAG_DYNAMIC_LOAD) THEN 1 ELSE 0
              /\ pc # "done" => UnloadCalls(n) = {}
    /\ (err = 0 /\ pc = "done") =>
          \A n \in ModuleEntries :
              /\ Cardinality(UnloadCalls(n)) =
                    IF HasFlag(decls[n].flags, SCFW_FLAG_DYNAMIC_LOAD)
                       /\ HasFlag(decls[n].flags, SCFW_FLAG_DYNAMIC_UNLOAD)
                    THEN 1 ELSE 0
              /\ \A i \in UnloadCalls(n) : calls[i].on = slots[n]
              /\ \A i \in UnloadCalls(n) : \A j \in LoadCalls(n) : j < i

C6_Witness ==
    /\ err = 0 /\ pc = "done"
    /\ \E n \in ModuleEntries : UnloadCalls(n) # {}
    /\ \E n \in ModuleEntries : LoadCalls(n) # {} /\ UnloadCalls(n) = {}
    /\ \E n \in ModuleEntries : LoadCalls(n) = {}

(* C7: a module entry is resolved by exactly one strategy: load_module by  *)
(* name if its flags have DYNAMIC_LOAD, else find_module by string compare *)
(* if they have STRING_MODULE, else find_module by FNV-1a hash; the result *)
(* is stored as the entry's handle.                                        *)
C7_ModuleStrategyPriority ==
    \A n \in ModuleEntries :
        Attempted(n) =>
            /\ Len(ModuleResolutions(n)) = 1
            /\ LET e == ModuleResolutions(n)[1]
                   f == decls[n].flags
               IN  /\ e.ret = slots[n]
                   /\ IF HasFlag(f, SCFW_FLAG_DYNAMIC_LOAD)
                      THEN e.op = "load_module" /\ e.arg = decls[n].name
                      ELSE IF HasFlag(f, SCFW_FLAG_STRING_MODULE)
                           THEN e.op = "find_module" /\ e.by = "strcmp"
                                /\ e.arg = decls[n].name
                           ELSE e.op = "find_module" /\ e.by = "fnv1a"
                                /\ e.arg = fnv1a_hash(decls[n].name)

C7_Witness ==
    /\ InitReturned
    /\ \E n \in ModuleEntries :
          /\ HasFlag(decls[n].flags, SCFW_FLAG_DYNAMIC_LOAD)
          /\ HasFlag(decls[n].flags, SCFW_FLAG_STRING_MODULE)
          /\ Len(ModuleResolutions(n)) = 1
          /\ ModuleResolutions(n)[1].op = "load_module"
          /\ slots[n] = Base("user32")

(* C8: a symbol entry is resolved against the handle of the nearest module *)
(* entry declared before it, by exactly one strategy chosen from its       *)
(* effective flags: the header's lookup_symbol if they have                *)
(* DYNAMIC_RESOLVE, else the PE export parse with string compare if they   *)
(* have STRING_SYMBOL, else the PE export parse with FNV-1a hash.          *)
C8_SymbolStrategyPriority ==
    \A n \in SymbolEntries :
        Attempted(n) =>
            /\ Len(SymbolResolutions(n)) = 1
            /\ LET e == SymbolResolutions(n)[1]
                   own == decls[n].flags
                   inherited == lookup_flags(decls, n - 1, "module")
                   effective(bit) == HasFlag(own, bit) \/ HasFlag(inherited, bit)
               IN  /\ e.ret = slots[n]
                   /\ ParentModule(n) # 0
                   /\ e.on = slots[ParentModule(n)]
                   /\ IF effective(SCFW_FLAG_DYNAMIC_RESOLVE)
                      THEN e.op = "lookup_symbol_" /\ e.arg = decls[n].name
                      ELSE IF effective(SCFW_FLAG_STRING_SYMBOL)
                           THEN e.op = "lookup_symbol" /\ e.by = "strcmp"
                                /\ e.arg = decls[n].name
                           ELSE e.op = "lookup_symbol" /\ e.by = "fnv1a"
                                /\ e.arg = fnv1a_hash(decls[n].name)

C8_Witness ==
    /\ InitReturned
    /\ \E n \in SymbolEntries :
          /\ ParentModule(n) = 2
          /\ HasFlag(decls[n].flags, SCFW_FLAG_DYNAMIC_RESOLVE)
          /\ HasFlag(decls[2].flags, SCFW_FLAG_STRING_SYMBOL)
          /\ Len(SymbolResolutions(n)) = 1
          /\ SymbolResolutions(n)[1].op = "lookup_symbol_"
          /\ SymbolResolutions(n)[1].on = slots[2]
          /\ slots[n] # 0

\* the flags a symbol entry works with, read off the declarations alone
InheritedBits == {SCFW_FLAG_DYNAMIC_RESOLVE, SCFW_FLAG_STRING_SYMBOL}
EffectiveHas(n, bit) ==
    \/ HasFlag(decls[n].flags, bit)
    \/ /\ bit \in InheritedBits
       /\ ParentModule(n) # 0
       /\ HasFlag(decls[ParentModule(n)].flags, bit)

(* C9: the effective flags of a symbol entry are its own flags together    *)
(* with the DYNAMIC_RESOLVE and STRING_SYMBOL bits of the nearest module   *)
(* entry declared before it; the flags of earlier modules and of sibling   *)
(* symbols have no effect on how it is resolved.                           *)
C9_EffectiveFlagsFromNearestModule ==
    \A n \in SymbolEntries :
        Attempted(n) =>
            \A i \in 1..Len(SymbolResolutions(n)) :
                LET e == SymbolResolutions(n)[i]
                IN  /\ e.op = "lookup_symbol_" <=>
                          EffectiveHas(n, SCFW_FLAG_DYNAMIC_RESOLVE)
                    /\ (e.op = "lookup_symbol" /\ e.by = "strcmp") <=>
                          (~EffectiveHas(n, SCFW_FLAG_DYNAMIC_RESOLVE)
                           /\ EffectiveHas(n, SCFW_FLAG_STRING_SYMBOL))
                    /\ (e.op = "lookup_symbol" /\ e.by = "fnv1a") <=>
                          (~EffectiveHas(n, SCFW_FLAG_DYNAMIC_RESOLVE)
                           /\ ~EffectiveHas(n, SCFW_FLAG_STRING_SYMBOL))

C9_Witness ==
    /\ InitReturned /\ err = 0
    /\ Len(decls) = 3
    /\ decls[1].kind = "module" /\ HasFlag(decls[1].flags, SCFW_FLAG_STRING_SYMBOL)
    /\ decls[2].kind = "module" /\ decls[2].flags = 0
    /\ decls[3].kind = "symbol" /\ decls[3].flags = 0
    /\ Len(SymbolResolutions(3)) = 1
    /\ SymbolResolutions(3)[1].by = "fnv1a"

ForbiddenModule(d) ==
    /\ d.kind = "module"
    /\ HasFlag(d.flags, SCFW_FLAG_DYNAMIC_UNLOAD)
    /\ ~HasFlag(d.flags, SCFW_FLAG_DYNAMIC_LOAD)
ForbiddenSymbol(d) ==
    /\ d.kind = "symbol"
    /\ \/ HasFlag(d.flags, SCFW_FLAG_DYNAMIC_LOAD)
       \/ HasFlag(d.flags, SCFW_FLAG_DYNAMIC_UNLOAD)
       \/ HasFlag(d.flags, SCFW_FLAG_STRING_MODULE)
ForbiddenImports == {n \in Entries : ForbiddenModule(decls[n]) \/ ForbiddenSymbol(decls[n])}
DynamicFeatures == features \cap {"LOAD_MODULE", "UNLOAD_MODULE", "LOOKUP_SYMBOL"}
KernelDynamicUse ==
    /\ mode = "kernel_mode"
    /\ \/ DynamicFeatures # {}
       \/ \E n \in ModuleEntries : HasFlag(decls[n].flags, SCFW_FLAG_DYNAMIC_LOAD)
       \/ \E n \in SymbolEntries : EffectiveHas(n, SCFW_FLAG_DYNAMIC_RESOLVE)

OrphanSymbols == {n \in SymbolEntries : ParentModule(n) = 0}

(* C11: a symbol declared before any module is a static error, whatever    *)
(* its own flags; init never resolves a symbol against the base level's    *)
(* absent module handle.                                                   *)
C11_SymbolNeedsAncestorModule ==
    /\ OrphanSymbols # {} =>
          /\ pc = "rejected"
          /\ OrphanSymbols = {1} /\ Len(decls) = 1
          /\ \E d \in diag : d.kind = "entry_type is not a member of dispatch_table_impl<0>"
    /\ \A i \in 1..Len(calls) :
          (calls[i].id # 0 /\ calls[i].op \in {"lookup_symbol", "lookup_symbol_"}) =>
              /\ calls[i].id \in SymbolEntries
              /\ ParentModule(calls[i].id) # 0
              /\ calls[i].on # 0
              /\ calls[i].on = slots[ParentModule(calls[i].id)]

C11_Witness ==
    /\ pc = "rejected"
    /\ Len(decls) = 1
    /\ decls[1].kind = "symbol"
    /\ decls[1].flags = SCFW_FLAG_DYNAMIC_RESOLVE
    /\ diag = {Diagnostic("entry_type is not a member of dispatch_table_impl<0>", NoImport)}

\* a sequence of character units as the bytes they occupy (little-endian)
Bytes(units, CharT) ==
    IF CharT = "char" THEN units
    ELSE [i \in 1..(2 * Len(units)) |->
             IF i % 2 = 1 THEN units[(i + 1) \div 2] % 256
             ELSE units[i \div 2] \div 256]
Contains(hay, needle) ==
    \E o \in 0..(Len(hay) - Len(needle)) :
        \A i \in 1..Len(needle) : hay[o + i] = needle[i]

(* C12: for every literal s, narrow or wide, of any length, and every key  *)
(* SCFW_XOR_KEY derives from a source line, the first decode_xor call on   *)
(* its record returns a pointer to bytes equal to s with its terminator.   *)
C12_FirstDecodeReturnsLiteral ==
    Len(xlog) >= 1 =>
        /\ xlog[1].ptr = decode_xor_result(literal.CharT)
        /\ xlog[1].data = Append(literal.chars, 0)

(* C13: decode_xor is idempotent: after the first decode the key field is  *)
(* zero, and every later call returns the same pointer and leaves key,     *)
(* length and data unchanged.                                              *)
C13_DecodeIdempotent ==
    /\ \A k \in 1..Len(xlog) :
          /\ xlog[k].key = 0
          /\ xlog[k].ptr = xlog[1].ptr
          /\ xlog[k].len = xlog[1].len
          /\ xlog[k].data = xlog[1].data
    /\ xpc = "returned" =>
          /\ xstr.key = 0
          /\ xstr.len = xlog[1].len
          /\ xstr.data = xlog[1].data
    /\ xpc = "loop" => xlog = <<>>

C13_Witness ==
    /\ Len(xlog) = MaxDecodes
    /\ xpc = "returned"
    /\ literal.chars = S_kernel32_dll
    /\ xlog[MaxDecodes].data = Append(S_kernel32_dll, 0)

(* C14: for every non-empty literal s and every key of SCFW_XOR_KEY, the   *)
(* encoded record [key, length, encoded bytes], scanned byte-wise before   *)
(* decoding, does not contain s as a contiguous substring.                 *)
C14_RecordHidesLiteral ==
    (xpc = "static" /\ xlog = <<>> /\ literal.chars # <<>>) =>
        ~Contains(Bytes(<<xstr.key, xstr.len>> \o xstr.data, literal.CharT),
                  Bytes(literal.chars, literal.CharT))

(* C15: for every ASCII string s, narrow or wide, fnv1a_hash(s),           *)
(* fnv1a_hash(upper(s)) and fnv1a_hash(lower(s)) are equal, upper and      *)
(* lower changing letters only; the hash is a 32-bit value.                *)
C15_HashIgnoresCase ==
    \A v \in DOMAIN hout :
        /\ hout[v][1] \in 0..65535 /\ hout[v][2] \in 0..65535
        /\ \A w \in DOMAIN hout : hout[v] = hout[w]

C15_Witness ==
    /\ DOMAIN hout = {"s", "upper", "lower"}
    /\ hstr.chars = <<97, 90, 123>>
    /\ hstr.CharT = "wchar_t"
    /\ hout["upper"] = hout["lower"]

(* C16: on the 32-bit target _pic(p) = _pc() - &_pc + p modulo 2^32 is the *)
(* runtime address of the datum linked at p, for every load base; the load *)
(* delta _pc() - &_pc is the same at every call; on the 64-bit target _(p) *)
(* is p.                                                                   *)
C16_PicGivesRuntimeAddress ==
    \A k \in 1..Len(pic_log) :
        LET e == pic_log[k]
        IN  /\ target = "x86" =>
                  /\ e.ret = Add32(load_base, Sub32(e.p, LinkBase))
                  /\ Sub32(e.ret, e.p) = Sub32(load_base, LinkBase)
            /\ Sub32(e.pc, AddrOfPc) = Sub32(pic_log[1].pc, AddrOfPc)
            /\ target = "x64" => e.ret = e.p

C16_Witness ==
    /\ target = "x86"
    /\ load_base = <<1, 0>>
    /\ Len(pic_log) = MaxPicCalls
    /\ pic_log[1].p = <<64, 8192>>
    /\ pic_log[1].ret = <<1, 8192>>
    /\ pic_log[2].p = <<64, 65535>>

FixedOrder == <<"cleanup_", "free_", "load_module_", "unload_module_", "lookup_symbol_">>
SwitchOf(field) ==
    CASE field \in {"cleanup_", "free_"} -> "CLEANUP"
      [] field = "load_module_" -> "LOAD_MODULE"
      [] field = "unload_module_" -> "UNLOAD_MODULE"
      [] field = "lookup_symbol_" -> "LOOKUP_SYMBOL"
EnabledBefore(i) == Cardinality({j \in 1..(i - 1) : SwitchOf(FixedOrder[j]) \in features})
WordSizes == {4, 8}

(* C17: under every feature set the header holds exactly the slots whose   *)
(* feature is enabled, each at word_size times the number of enabled slots *)
(* that come before it in the order cleanup, free, load_module,            *)
(* unload_module, lookup_symbol; with cleanup enabled, cleanup is at 0 and *)
(* free at word_size; the platform state block and then the slots of the   *)
(* imports, in declaration order, follow the header.                       *)
C17_HeaderLayout ==
    LET T == dispatch_table_impl(mode, features, decls, Len(decls))
        header == EnabledBefore(Len(FixedOrder) + 1)
        state == IF mode = "kernel_mode" THEN 1 ELSE 0
        members == {T[i] : i \in DOMAIN T}
    IN  \A w \in WordSizes :
          /\ \A i \in DOMAIN FixedOrder :
                /\ Member(FixedOrder[i], 0) \in members
                       <=> SwitchOf(FixedOrder[i]) \in features
                /\ SwitchOf(FixedOrder[i]) \in features
                       => offsetof(T, Member(FixedOrder[i], 0), w) = w * EnabledBefore(i)
          /\ {x \in members : x.id = 0 /\ x.field # "mode_"}
                 = {Member(f, 0) : f \in HeaderFields(features)}
          /\ Len(T) = header + state + Len(decls)
          /\ "CLEANUP" \in features
                 => /\ offsetof(T, Member("cleanup_", 0), w) = 0
                    /\ offsetof(T, Member("free_", 0), w) = w
          /\ mode = "kernel_mode" => offsetof(T, Member("mode_", 0), w) = w * header
          /\ \A n \in Entries :
                \E x \in members :
                    /\ x.id = n
                    /\ offsetof(T, x, w) = w * (header + state + (n - 1))
          /\ hdr # <<>> => DOMAIN hdr = {FixedOrder[i] : i \in {j \in DOMAIN FixedOrder :
                                            SwitchOf(FixedOrder[j]) \in features}}

C17_Witness ==
    /\ pc = "user"
    /\ features = {"CLEANUP", "UNLOAD_MODULE"}
    /\ mode = "user_mode"
    /\ Len(decls) = 2
    /\ decls[2].kind = "symbol"
    /\ offsetof(dispatch_table_impl(mode, features, decls, 2), Member("unload_module_", 0), 4) = 8
    /\ offsetof(dispatch_table_impl(mode, features, decls, 2), Member("slot_", 2), 8) = 32

(* C18: when init fails at the entry with ordinal N, every entry below N   *)
(* holds a non-null slot, every entry from N on holds the zero it had      *)
(* before init, and no find_module, load_module or symbol lookup was made  *)
(* for an entry after N.                                                   *)
C18_FailureStopsTheChain ==
    (InitReturned /\ err # 0) =>
        /\ \A n \in Entries : IF n < err THEN slots[n] # 0 ELSE slots[n] = 0
        /\ \A n \in Entries : n > err =>
              /\ Len(ModuleResolutions(n)) = 0
              /\ Len(SymbolResolutions(n)) = 0
        /\ \A i \in 1..Len(calls) : calls[i].id <= err

C18_Witness ==
    /\ InitReturned /\ err = 2
    /\ Len(decls) = 3
    /\ decls[3].kind = "module"
    /\ slots[1] # 0 /\ slots[3] = 0
    /\ Len(ModuleResolutions(1)) = 1
    /\ Len(calls) > 0 /\ calls[Len(calls)].id = 2

Teardown == SelectSeq(calls, LAMBDA e : e.op \in {"destroy", "unload_module"})
DestroyAt(n) == CHOOSE i \in 1..Len(calls) : calls[i].op = "destroy" /\ calls[i].id = n
Destroyed == err = 0 /\ pc = "done"

(* C19: destroy tears the entries down in the reverse of declaration       *)
(* order, the last declared entry first and the base-level destroy last;   *)
(* of two DYNAMIC_UNLOAD modules the later declared one is unloaded first, *)
(* and the teardown of a symbol runs before that of its parent module.     *)
C19_DestroyInReverseOrder ==
    /\ \A i, j \in 1..Len(Teardown) : i < j => Teardown[i].id >= Teardown[j].id
    /\ \A a, b \in ModuleEntries :
          (a < b /\ UnloadCalls(a) # {} /\ UnloadCalls(b) # {}) =>
              \A i \in UnloadCalls(a), j \in UnloadCalls(b) : j < i
    /\ Destroyed =>
          /\ [i \in 1..(Len(decls) + 1) |-> Len(decls) + 1 - i]
                 = [i \in 1..Len(SelectSeq(calls, LAMBDA e : e.op = "destroy")) |->
                        SelectSeq(calls, LAMBDA e : e.op = "destroy")[i].id]
          /\ calls[Len(calls)] = Event("destroy", 0, "chain", <<>>, 0, 0)
          /\ \A n \in SymbolEntries :
                /\ DestroyAt(n) < DestroyAt(ParentModule(n))
                /\ \A i \in UnloadCalls(ParentModule(n)) : DestroyAt(n) < i
          /\ \A n \in ModuleEntries :
                module_unloads(decls[n].flags, slots[n]) => UnloadCalls(n) # {}

C19_Witness ==
    /\ Destroyed
    /\ Len(decls) = 3
    /\ decls[1].kind = "module" /\ decls[2].kind = "symbol" /\ decls[3].kind = "module"
    /\ UnloadCalls(1) # {} /\ UnloadCalls(3) # {}
    /\ \A i \in UnloadCalls(3) : DestroyAt(2) > i

\* the indices, counted from 0, of the export names the request matches
MatchingExports(c) ==
    {i \in 0..(Len(image.dir.Names) - 1) :
        IF c.by = "strcmp" THEN image.dir.Names[i + 1] = c.key
        ELSE fnv1a_hash(image.dir.Names[i + 1]) = c.key}
HighestOf(S) == CHOOSE i \in S : \A j \in S : j <= i

(* C20: lookup_symbol returns module_base + Functions[Ordinals[index]] for *)
(* the highest index whose export name matches the request, byte for byte  *)
(* for a name and by FNV-1a equality for a hash, and null when no export   *)
(* name matches or the module has no named exports.                        *)
C20_HighestMatchingExportWins ==
    \A k \in 1..Len(lookups) :
        LET M == MatchingExports(lookups[k].comparator)
        IN  IF M = {} THEN lookups[k].ret = 0
            ELSE lookups[k].ret =
                     image.base
                     + image.dir.Functions[image.dir.Ordinals[HighestOf(M) + 1] + 1]

C20_Witness ==
    /\ Len(lookups) = 1
    /\ lookups[1].comparator = ByName(S_Sleep)
    /\ image.dir.Names = <<S_Sleep, S_Sleep, S_sleep>>
    /\ image.dir.Ordinals = <<0, 2, 1>>
    /\ lookups[1].ret = image.base + 304

\* the export the request selects in the image at module, as an index from
\* 0, or -1: the highest index whose name matches
SelectedExport(module, c) ==
    LET dir == ForwardDirectory(ImageAt(module), fhost.fwd[ImageAt(module)])
        M == {i \in 0..(Len(dir.Names) - 1) :
                 IF c.by = "strcmp" THEN dir.Names[i + 1] = c.key
                 ELSE fnv1a_hash(dir.Names[i + 1]) = c.key}
    IN  IF M = {} THEN -1 ELSE CHOOSE i \in M : \A j \in M : j <= i
SelectedRVA(module, c) ==
    LET dir == ForwardDirectory(ImageAt(module), fhost.fwd[ImageAt(module)])
    IN  dir.Functions[dir.Ordinals[SelectedExport(module, c) + 1] + 1]
InExportDirectory(rva) ==
    rva >= ForwardImage.ExportDirRVA
    /\ rva < ForwardImage.ExportDirRVA + ForwardImage.ExportDirSize
Lower(str) == [i \in 1..Len(str) |-> FoldLower(str[i])]
\* the loaded modules, in load order, whose base name is dll + ".dll"
LoadedAs(dll) ==
    {k \in 1..Len(fhost.list) :
        Lower(BaseDllName(fhost.list[k])) = Lower(dll \o <<46, 100, 108, 108>>)}
DotsOf(str) == {i \in 1..Len(str) : str[i] = 46}
FirstOf(S) == CHOOSE i \in S : \A j \in S : i <= j

(* C21: with forwarder support, a matched export whose RVA lies in the     *)
(* export directory is followed: the call returns what lookup_symbol of    *)
(* the module DLL.dll for Func returns, never an address inside an export  *)
(* directory, and null when the string has no dot, Func starts with '#' or *)
(* the target is not loaded; any other RVA is returned as module_base +    *)
(* RVA without following anything.                                         *)
C21_ForwarderFollowed ==
    [][ chase.pc = "call" =>
          LET m == chase.module
              c == chase.comparator
              str == fhost.fwd[ImageAt(m)]
              dll == SubSeq(str, 1, FirstOf(DotsOf(str)) - 1)
              func == SubSeq(str, FirstOf(DotsOf(str)) + 1, Len(str))
          IN  /\ (chase'.pc = "returned" /\ chase'.ret # 0)
                     => ~InExportDirectory(chase'.ret - Base(ImageAt(chase'.ret - (chase'.ret % 4096))))
              /\ IF SelectedExport(m, c) = -1
                 THEN chase'.pc = "returned" /\ chase'.ret = 0
                 ELSE IF ~InExportDirectory(SelectedRVA(m, c))
                 THEN chase'.pc = "returned" /\ chase'.ret = m + SelectedRVA(m, c)
                 ELSE IF DotsOf(str) = {} \/ CharAt(func, 1) = 35 \/ LoadedAs(dll) = {}
                 THEN chase'.pc = "returned" /\ chase'.ret = 0
                 ELSE /\ chase'.pc = "call"
                      /\ chase'.module = Base(fhost.list[FirstOf(LoadedAs(dll))])
                      /\ chase'.comparator = ByName(func) ]_vars

(* C28: resolving a forwarded export writes only inside the 64-byte        *)
(* DllName buffer: every index written while the target DLL name is built  *)
(* is between 0 and 63, whatever the lengths of the DLL part and of the    *)
(* function part of the forwarder string.                                  *)
C28_DllNameWritesInBounds ==
    \A i \in chase.writes : i >= 0 /\ i <= DllNameSize - 1

(* C30: with forwarder support, lookup_symbol terminates for every set of  *)
(* loaded modules and export tables, also when forwarder strings of loaded *)
(* modules refer to each other: the chase of recursive calls comes to an   *)
(* end.                                                                    *)
C30_ChaseTerminates == <>(chase.pc # "call")

\* the entries of the list, in load order, whose base name the request matches
MatchingEntries(list, c) ==
    {k \in 1..Len(list) :
        IF c.by = "strcmp" THEN Lower(BaseDllName(list[k])) = Lower(c.key)
        ELSE fnv1a_hash(BaseDllName(list[k])) = c.key}
FirstMatchBase(list, c) ==
    IF MatchingEntries(list, c) = {} THEN 0
    ELSE Base(list[FirstOf(MatchingEntries(list, c))])
\* the order the Windows loader gives the list: ntdll.dll second, kernel32.dll
\* third, and no entry of either name before them
WindowsOrder(list) ==
    /\ Len(list) >= 3
    /\ FirstOf(MatchingEntries(list, ByName(S_ntdll_dll)) \cup {Len(list) + 1}) = 2
    /\ FirstOf(MatchingEntries(list, ByName(S_kernel32_dll)) \cup {Len(list) + 1}) = 3

----------------------------------------------------------------------------
(* Kernel-mode module lookup.                                              *)

\* the request names ntoskrnl.exe, in any ASCII case or by its hash
NamesKernel(c) ==
    IF c.by = "strcmp" THEN Lower(c.key) = S_ntoskrnl_exe
    ELSE c.key = fnv1a_hash(S_ntoskrnl_exe)
\* the places of the queried array whose base name the request matches
ArrayMatches(c) ==
    {i \in 1..Len(ksys.modules) :
        IF c.by = "strcmp" THEN Lower(BaseDllName(ksys.modules[i])) = Lower(c.key)
        ELSE fnv1a_hash(BaseDllName(ksys.modules[i])) = c.key}
FirstArrayMatch(c) ==
    IF ArrayMatches(c) = {} THEN 0 ELSE Base(ksys.modules[FirstOf(ArrayMatches(c))])
\* the last query handed an array over in the buffer the helper holds
ArrayQueried == kq.Status = "STATUS_SUCCESS" /\ kq.Buffer # 0 /\ kq.filled = kq.Buffer

\* C23: in kernel mode the base init has stored argument1 as the kernel base
\* before any module is looked up; a lookup of ntoskrnl.exe, in any ASCII
\* case or by hash, returns that base without a query or an allocation; a
\* lookup of another name returns the ImageBase of the first module of the
\* queried array whose base name matches, case-insensitively or by hash, and
\* null when none matches.
C23_KernelModuleLookup ==
    /\ kq.pc # "init" => kq.kernel_base = ksys.argument1
    /\ kq.pc = "returned" =>
        IF NamesKernel(kq.comparator)
        THEN kq.ret = ksys.argument1 /\ kq.queries = 0 /\ kq.pool = <<>>
        ELSE ArrayQueried => kq.ret = FirstArrayMatch(kq.comparator)

C23_Witness ==
    /\ kq.pc = "returned"
    /\ kq.comparator = ByName(S_KSECDD_SYS)
    /\ ksys.modules = <<"ntoskrnl", "ksecdd">>
    /\ ArrayQueried
    /\ kq.ret = Base("ksecdd")

\* the buffers the pool handed out, and how often each was released
AllocatedBuffers ==
    {kq.pool[i].buffer : i \in {j \in 1..Len(kq.pool) :
        kq.pool[j].op = "ExAllocatePool" /\ kq.pool[j].buffer # 0}}
FreesOf(b) ==
    Cardinality({i \in 1..Len(kq.pool) :
        kq.pool[i].op = "ExFreePool" /\ kq.pool[i].buffer = b})

\* C24: whatever the queries and the allocations answer, no buffer is
\* released twice, nothing is released that the pool did not hand out
\* before, and when the helper returns every buffer it obtained has been
\* released exactly once.
C24_EveryBufferFreedOnce ==
    /\ \A b \in AllocatedBuffers : FreesOf(b) <= 1
    /\ \A i \in 1..Len(kq.pool) :
          kq.pool[i].op = "ExFreePool" =>
              \E j \in 1..(i - 1) : kq.pool[j] = [op |-> "ExAllocatePool",
                                                  buffer |-> kq.pool[i].buffer]
    /\ kq.pc = "returned" => \A b \in AllocatedBuffers : FreesOf(b) = 1

C24_Witness ==
    /\ kq.pc = "returned"
    /\ Cardinality(AllocatedBuffers) = 2
    /\ \A b \in AllocatedBuffers : FreesOf(b) = 1

\* the helper was entered and the enumeration failed: a routine it needs is
\* not exported, the last query reported a failure, or there is no buffer
EnumerationFailed ==
    /\ ~NamesKernel(kq.comparator)
    /\ \/ ksys.missing # NoImport
       \/ kq.Status # "STATUS_SUCCESS"
       \/ kq.Buffer = 0

\* C25: when the enumeration fails, find_module returns null and reads no
\* module data from an absent or unfilled buffer.
C25_EnumerationFailureGivesNull ==
    (kq.pc \in {"returned", "crashed"} /\ EnumerationFailed) =>
        kq.pc = "returned" /\ kq.ret = 0 /\ ~kq.bad_read

----------------------------------------------------------------------------
(* The two folds.                                                          *)

Comparators == {"_stricmp", "_wcsicmp", "_wcsicmpa"}
\* every comparator that ran and the hasher agree on the pair
FoldsAgree ==
    \A f \in Comparators \cap DOMAIN fold_out :
        "fnv1a_hash" \in DOMAIN fold_out =>
            ((fold_out[f] = 0) <=> (fold_out["fnv1a_hash"].a = fold_out["fnv1a_hash"].b))
\* the bytes above 'z': '{', '|', '}', '~', DEL
AboveZ(str) == {i \in 1..Len(str) : str[i] >= 123 /\ str[i] <= 127}

\* C26 as stated: on any two ASCII strings the comparators report equal
\* exactly when fnv1a_hash folds the two to the same byte sequence.
C26_FoldsAgreeOnAscii == FoldsAgree

\* C26 amended: on any two ASCII strings the comparators reporting equal
\* implies the same folded byte sequence (and the same hash), and the
\* converse holds when neither string has a byte above 'z'.
C26_FoldsAgreeUpToZ ==
    /\ \A f \in Comparators \cap DOMAIN fold_out :
          ("fnv1a_hash" \in DOMAIN fold_out /\ fold_out[f] = 0) =>
              /\ fold_out["fnv1a_hash"].a = fold_out["fnv1a_hash"].b
              /\ fold_out["fnv1a_hash"].hash_a = fold_out["fnv1a_hash"].hash_b
    /\ (AboveZ(fold_in.a) = {} /\ AboveZ(fold_in.b) = {}) => FoldsAgree

C26_Witness ==
    /\ DOMAIN fold_out = Comparators \cup {"fnv1a_hash"}
    /\ fold_in.a # fold_in.b
    /\ AboveZ(fold_in.a) = {} /\ AboveZ(fold_in.b) = {}
    /\ Len(fold_in.a) = 2
    /\ fold_out["_stricmp"] = 0
    /\ fold_out["fnv1a_hash"].a = fold_out["fnv1a_hash"].b

----------------------------------------------------------------------------
(* The dispatch table during the user body.                                *)

HeaderFrozen == hdr' = hdr /\ kernel_base' = kernel_base
\* the entries whose slot (module handle or symbol slot) the step changes
SlotsWritten == {n \in DOMAIN slots : slots'[n] # slots[n]}

\* C27 as stated: no step of the user body changes a header pointer, a
\* module handle or a symbol slot.
C27_TableFrozenInBody ==
    [][pc = "user" => HeaderFrozen /\ SlotsWritten = {}]_vars

\* C27 amended: no step of the user body changes a header pointer or a
\* module handle, and the only step that changes a symbol slot is an
\* assignment to a value proxy, which stores the assigned value in that
\* proxy's own slot.
C27_OnlyValueAssignWritesItsSlot ==
    [][pc = "user" =>
        /\ HeaderFrozen
        /\ \A n \in SlotsWritten :
              /\ decls[n].kind = "symbol" /\ n \in body.values
              /\ body'.last.op = "assign" /\ body'.last.n = n
              /\ slots'[n] = body'.last.value]_vars

C27_Witness ==
    /\ pc = "user"
    /\ body.ops = 2
    /\ body.last.op = "assign"
    /\ body.last.old # 0 /\ body.last.value = 43981
    /\ slots[body.last.n] = 43981
    /\ slots[1] # 0

----------------------------------------------------------------------------
(* Termination of decode_xor.                                              *)

\* the data of the record as xor_string left it
EncodedData ==
    xor_string(Append(literal.chars, 0),
               SCFW_XOR_KEY(literal.line, literal.CharT), literal.CharT).data

\* C29: decode_xor terminates on every record: its loop runs len + 1 turns
\* and ends. Inside the loop the counter tells how many turns have run: it
\* is at most len + 1 and exactly the first xi characters are decoded, so
\* the counter never comes back to a value it has had.
C29_LoopEndsAfterLenPlusOne ==
    xpc = "loop" =>
        /\ xi <= xstr.len + 1
        /\ \A j \in 1..Len(xstr.data) :
              xstr.data[j] = IF j <= xi THEN BitXor(EncodedData[j], xstr.key)
                             ELSE EncodedData[j]

====
